---- MODULE Spec2Model ----
(***************************************************************************)
(* A model of rtsrc/gen_bindings.py, the native-binding generator of       *)
(* wrenc: the binding model (Method.arity, Method.signature,               *)
(* Method.method_name) and the emitter (generate).                         *)
(*                                                                         *)
(* Text is a sequence of one-character strings, so that slicing, prefix    *)
(* tests, lower-casing and concatenation are computed as the code computes *)
(* them.  The output stream is the sequence of output.write calls, each a  *)
(* record holding the format string's kind and its interpolated values.    *)
(***************************************************************************)
EXTENDS Integers, Sequences, FiniteSets, TLC

VARIABLES
    recv,        \* the Method objects the binding model is called on
    ret,         \* per object: what arity(), signature(), method_name() returned
    files,       \* options.files: per file, the class list parse_file returns for it
    pre_entry_gc,\* options.pre_entry_gc
    classes,     \* generate: the aggregated class list
    output,      \* generate: the writes made to the output stream so far
    pc,          \* generate: position in the function
    ci,          \* generate: index of the class being emitted
    mi,          \* generate: index of the method being emitted
    exc,         \* generate: the exception that ended the run, if any
    runs,        \* the runs made before this one: their options, output and exception
    headers,     \* the files named by options.files as parse_file reads them: the lines as
                 \* text, or as the groups the patterns find in them
    WORKING_LOCK,        \* test.py: TRUE while the lock is locked
    THREADS_SEM,         \* test.py: the value of the bounded semaphore
    threads_in_progress, \* test.py: the list of worker threads
    passed,              \* test.py: counter of passed tests
    expected_failed,     \* test.py: counter of tests that failed as expected
    failed,              \* test.py: counter of failed tests
    worker,      \* test.py: per worker thread, its position in run(), whether an exception
                 \* is propagating, and whether it is between an acquire and a release of
                 \* WORKING_LOCK
    runner,      \* test.py: the main thread's position in main(), the number of calls of
                 \* run_parallel made, and waiting_on
    summary      \* test.py: the counters main() wrote in the final summary, if written

testvars == <<WORKING_LOCK, THREADS_SEM, threads_in_progress, passed, expected_failed, failed,
              worker, runner, summary>>

vars == <<recv, ret, files, pre_entry_gc, classes, output, pc, ci, mi, exc, runs, headers,
          testvars>>

(***************************************************************************)
(* Bounds of the model                                                     *)
(***************************************************************************)
ModelMaxArgs == 2   \* parsed arguments of a Method object the binding model is called on
MaxArgs == 1        \* parsed arguments of a method in the input of generate
MaxItems == 4       \* files, class declarations and method declarations of a run (Spec)
MaxNamedItems == 3  \* the same, for the runs of SpecNamed (one file, one class)
MaxRuns == 2        \* runs of generate made one after the other (SpecRuns)
max_threads == 2    \* args.num_threads: the workers test.py runs in parallel (SpecTest)
MaxTasks == 3       \* files walk() hands to run_parallel in a run of test.py (SpecTest)

(***************************************************************************)
(* Text                                                                    *)
(***************************************************************************)
UPPER == <<"A","B","C","D","E","F","G","H","I","J","K","L","M",
           "N","O","P","Q","R","S","T","U","V","W","X","Y","Z">>
LOWER == <<"a","b","c","d","e","f","g","h","i","j","k","l","m",
           "n","o","p","q","r","s","t","u","v","w","x","y","z">>
DIGITS == <<"0","1","2","3","4","5","6","7","8","9">>

\* str.lower() of one character
CharLower(c) ==
    IF \E i \in DOMAIN UPPER : UPPER[i] = c
    THEN LOWER[CHOOSE i \in DOMAIN UPPER : UPPER[i] = c]
    ELSE c

\* str.upper() of one character
CharUpper(c) ==
    IF \E i \in DOMAIN LOWER : LOWER[i] = c
    THEN UPPER[CHOOSE i \in DOMAIN LOWER : LOWER[i] = c]
    ELSE c

\* s.capitalize(): first character upper-cased, the others lower-cased
Capitalize(s) == [i \in DOMAIN s |-> IF i = 1 THEN CharUpper(s[i]) ELSE CharLower(s[i])]

\* s.startswith(p)
StartsWith(s, p) == Len(s) >= Len(p) /\ SubSeq(s, 1, Len(p)) = p

\* s.removeprefix(p)
RemovePrefix(s, p) == IF StartsWith(s, p) THEN SubSeq(s, Len(p) + 1, Len(s)) ELSE s

\* str(n) for n >= 0, as an f-string formats an int
RECURSIVE IntStr(_)
IntStr(n) == IF n < 10 THEN <<DIGITS[n + 1]>> ELSE IntStr(n \div 10) \o <<DIGITS[(n % 10) + 1]>>

\* sep.join(items): the items with sep between neighbours
Join(items, sep) ==
    [i \in 1..(2 * Len(items) - 1) |-> IF i % 2 = 1 THEN items[(i + 1) \div 2] ELSE sep]

\* ",".join(["_"] * n); a list times a negative number is the empty list
Placeholders(n) == Join([i \in 1..n |-> "_"], ",")

\* number of occurrences of character c in s
Count(s, c) == Cardinality({i \in DOMAIN s : s[i] = c})

(***************************************************************************)
(* Names used by the generator and by the inputs                           *)
(***************************************************************************)
OPERATOR_PREFIX == <<"O","p","e","r","a","t","o","r">>
OPERATOR_SUBSCRIPT == OPERATOR_PREFIX \o <<"S","u","b","s","c","r","i","p","t">>
OPERATOR_SUBSCRIPT_SET == OPERATOR_SUBSCRIPT \o <<"S","e","t">>
NUMBER_CLASS == <<"O","b","j","N","u","m","C","l","a","s","s">>
NULL_CLASS == <<"O","b","j","N","u","l","l">>

\* OPERATOR_TYPES, as its (key, value) items in source order
OperatorItems == <<
    << <<"P","l","u","s">>,                                  <<"+">> >>,
    << <<"M","i","n","u","s">>,                              <<"-">> >>,
    << <<"M","u","l","t","i","p","l","y">>,                  <<"*">> >>,
    << <<"D","i","v","i","d","e">>,                          <<"/">> >>,
    << <<"M","o","d","u","l","o">>,                          <<"%">> >>,
    << <<"A","n","d">>,                                      <<"&">> >>,
    << <<"O","r">>,                                          <<"|">> >>,
    << <<"X","O","r">>,                                      <<"^">> >>,
    << <<"L","e","f","t","S","h","i","f","t">>,              <<"<","<">> >>,
    << <<"R","i","g","h","t","S","h","i","f","t">>,          <<">",">">> >>,
    << <<"E","q","u","a","l","T","o">>,                      <<"=","=">> >>,
    << <<"N","o","t","E","q","u","a","l">>,                  <<"!","=">> >>,
    << <<"L","e","s","s","T","h","a","n">>,                  <<"<">> >>,
    << <<"L","e","s","s","T","h","a","n","E","q">>,          <<"<","=">> >>,
    << <<"G","r","e","a","t","e","r","T","h","a","n">>,      <<">">> >>,
    << <<"G","r","e","a","t","e","r","T","h","a","n","E","q">>, <<">","=">> >>,
    << <<"B","o","o","l","N","e","g","a","t","e">>,          <<"!">> >>,
    << <<"B","i","t","w","i","s","e","N","e","g","a","t","e">>, <<"~">> >>,
    << <<"D","o","t","D","o","t">>,                          <<".",".">> >>,
    << <<"D","o","t","D","o","t","D","o","t">>,              <<".",".",".">> >>
>>

\* d[k] for a dict given as its items
Lookup(items, k) == items[CHOOSE i \in DOMAIN items : items[i][1] = k][2]
\* k in d
HasKey(items, k) == \E i \in DOMAIN items : items[i][1] = k

\* a table that maps every key to itself, in place of the operator symbols
OPERATOR_TYPES_keys(op_type) == op_type

\* OPERATOR_TYPES[op_type]
OPERATOR_TYPES(op_type) == Lookup(OperatorItems, op_type)

ObjFoo == <<"O","b","j","F","o","o">>
ObjA == <<"O","b","j","A">>
ObjA_B == <<"O","b","j","A","_","B">>
Bar == <<"B","a","r">>
foo == <<"f","o","o">>
B_C == <<"B","_","C">>
NameC == <<"C">>
OperatorBare == OPERATOR_PREFIX
OperatorFoo == OPERATOR_PREFIX \o <<"F","o","o">>
OperatorPlus == OPERATOR_PREFIX \o <<"P","l","u","s">>

TypeValue == <<"V","a","l","u","e">>
TypeDouble == <<"d","o","u","b","l","e">>
TypeInt == <<"i","n","t">>
TypeVoid == <<"v","o","i","d">>

KindPlain == ""
KindGetter == "getter"
KindVariadic == "variadic"
Kinds == {KindPlain, KindGetter, KindVariadic}

\* Optional[str]: None is the empty tuple, a present value x is <<x>>
None == <<>>
Some(x) == <<x>>

(***************************************************************************)
(* Binding model: Arg, Method, Class                                       *)
(***************************************************************************)
Arg(type, name, pos, error_name) ==
    [type |-> type, name |-> name, pos |-> pos, error_name |-> error_name]

\* Arg.raw_name / Arg.typed_name
raw_name(arg) == <<"a","r","g">> \o IntStr(arg.pos)
typed_name(arg) == <<"t","y","p","e","d","A","r","g">> \o IntStr(arg.pos)

\* parent_class is the owning class's name: the model's methods only read .name of it
Method(return_type, name, args, static, special_type, parent_class) ==
    [return_type |-> return_type, name |-> name, args |-> args, static |-> static,
     special_type |-> special_type, parent_class |-> parent_class]

Class(name, methods) == [name |-> name, methods |-> methods]

\* Results of calls that may raise
Ok(v) == [st |-> "ok", val |-> v]
Raise(kind, names) == [st |-> "raise", kind |-> kind, names |-> names]
NotCalled == [st |-> "none"]
IsOk(r) == r.st = "ok"
IsRaise(r) == r.st = "raise"

\* arity with the receiver taken out of every method of the number class,
\* the static ones included
arity_any_number_method(self) ==
    LET count == Len(self.args) IN
    IF self.parent_class = NUMBER_CLASS
    THEN IF count - 1 < 0
         THEN Raise("Missing number class receiver for", <<self.name>>)
         ELSE Ok(count - 1)
    ELSE Ok(count)

\* Method.arity
arity(self) ==
    LET count == Len(self.args) IN
    IF self.parent_class = NUMBER_CLASS /\ ~self.static
    THEN IF count - 1 < 0
         THEN Raise("Missing number class receiver for", <<self.name>>)
         ELSE Ok(count - 1)
    ELSE Ok(count)

\* name.lower(), every character lower-cased
LowerAll(name) == [i \in DOMAIN name |-> CharLower(name[i])]

\* name[0].lower() + name[1:]
LowerFirst(name) == <<CharLower(name[1])>> \o SubSeq(name, 2, Len(name))

\* the indexing forms with the assigned value counted among the indices
subscript_signature_all_indices(setter, count) ==
    IF setter
    THEN <<"[">> \o Placeholders(count) \o <<"]", "=", "(", "_", ")">>
    ELSE <<"[">> \o Placeholders(count) \o <<"]">>

\* "[" index_part "]" or "[" index_part "]=(_)" (lines 93-105)
subscript_signature(setter, count) ==
    IF setter
    THEN <<"[">> \o Placeholders(count - 1) \o <<"]", "=", "(", "_", ")">>
    ELSE <<"[">> \o Placeholders(count) \o <<"]">>

\* lines 114-120 without the getter rule: every kind gets the argument part
named_signature_call(name, special_type, count) ==
    LowerFirst(name) \o <<"(">> \o Placeholders(count) \o <<")">>

\* lines 114-120, for the name left by the operator rule
named_signature(name, special_type, count) ==
    IF special_type = KindGetter
    THEN LowerFirst(name)
    ELSE LowerFirst(name) \o <<"(">> \o Placeholders(count) \o <<")">>

\* Method.signature, once arity() has returned count
signature_for(self, count) ==
    IF self.name = OPERATOR_SUBSCRIPT \/ self.name = OPERATOR_SUBSCRIPT_SET
    THEN Ok(subscript_signature(self.name = OPERATOR_SUBSCRIPT_SET, count))
    ELSE IF StartsWith(self.name, OPERATOR_PREFIX)
    THEN IF ~HasKey(OperatorItems, RemovePrefix(self.name, OPERATOR_PREFIX))
         THEN Raise("Invalid operator name", <<self.parent_class, self.name>>)
         ELSE Ok(named_signature(OPERATOR_TYPES(RemovePrefix(self.name, OPERATOR_PREFIX)),
                                 self.special_type, count))
    ELSE Ok(named_signature(self.name, self.special_type, count))

\* Method.signature: arity() is called first (line 88) and its exception propagates
signature(self) ==
    IF IsRaise(arity(self)) THEN arity(self) ELSE signature_for(self, arity(self).val)

\* Method.method_name
method_name(self) ==
    IF IsRaise(arity(self)) THEN arity(self)
    ELSE Ok(<<"b","i","n","d","i","n","g","_">> \o self.parent_class \o <<"_">>
            \o self.name \o <<"_">> \o IntStr(arity(self).val))

\* f"{method.method_name()}_va{num}", the symbol of a variadic forwarding wrapper,
\* given the value symbol of method.method_name()
va_name(symbol, num) == symbol \o <<"_","v","a">> \o IntStr(num)

(***************************************************************************)
(* The binding model on its own: a Method object is drawn and its derived  *)
(* properties are called on it.                                            *)
(***************************************************************************)
\* n parsed arguments, positions 0..n-1, no ARG annotation
PlainArgs(n) == [i \in 1..n |-> Arg(TypeDouble, <<"x">> \o IntStr(i - 1), i - 1, None)]

ModelClassNames == {ObjFoo, NUMBER_CLASS, NULL_CLASS}
ModelNames ==
    {OPERATOR_PREFIX \o OperatorItems[i][1] : i \in DOMAIN OperatorItems}
    \cup {OperatorBare, OperatorFoo, OPERATOR_SUBSCRIPT, OPERATOR_SUBSCRIPT_SET, Bar, foo, B_C}

MethodsOver(classNames, names, kinds, maxArgs) ==
    {Method(TypeValue, n, PlainArgs(k), s, t, c) :
        n \in names, k \in 0..maxArgs, s \in BOOLEAN, t \in kinds, c \in classNames}

ModelMethods == MethodsOver(ModelClassNames, ModelNames, Kinds, ModelMaxArgs)
PairMethods == MethodsOver({ObjA, ObjA_B}, {NameC, B_C}, {KindVariadic}, ModelMaxArgs)

NoCalls == [arity |-> NotCalled, signature |-> NotCalled, method_name |-> NotCalled]

\* test.py as its module level leaves it, before main() is called
TestIdle ==
    /\ WORKING_LOCK = FALSE
    /\ THREADS_SEM = max_threads
    /\ threads_in_progress = <<>>
    /\ passed = 0
    /\ expected_failed = 0
    /\ failed = 0
    /\ worker = <<>>
    /\ runner = [pc |-> "idle", calls |-> 0, waiting_on |-> 0]
    /\ summary = None

GenerateIdle ==
    /\ files = <<>>
    /\ pre_entry_gc = FALSE
    /\ classes = <<>>
    /\ output = <<>>
    /\ pc = "idle"
    /\ ci = 0
    /\ mi = 0
    /\ exc = None
    /\ runs = <<>>
    /\ headers = <<>>

InitModel ==
    /\ TestIdle
    /\ recv \in {<<m>> : m \in ModelMethods}
    /\ ret = <<NoCalls>>
    /\ GenerateIdle

InitPair ==
    /\ TestIdle
    /\ recv \in {<<m1, m2>> : m1 \in PairMethods, m2 \in PairMethods}
    /\ ret = <<NoCalls, NoCalls>>
    /\ GenerateIdle

genvars == <<files, pre_entry_gc, classes, output, pc, ci, mi, exc, runs, headers>>

CallArity(i) ==
    /\ ret[i].arity = NotCalled
    /\ ret' = [ret EXCEPT ![i].arity = arity(recv[i])]
    /\ UNCHANGED <<testvars, recv, genvars>>

CallSignature(i) ==
    /\ ret[i].signature = NotCalled
    /\ ret' = [ret EXCEPT ![i].signature = signature(recv[i])]
    /\ UNCHANGED <<testvars, recv, genvars>>

CallMethodName(i) ==
    /\ ret[i].method_name = NotCalled
    /\ ret' = [ret EXCEPT ![i].method_name = method_name(recv[i])]
    /\ UNCHANGED <<testvars, recv, genvars>>

NextModel ==
    \E i \in DOMAIN recv :
        \/ CallArity(i)
        \/ CallSignature(i)
        \/ CallMethodName(i)

SpecModel == InitModel /\ [][NextModel]_vars
SpecPair == InitPair /\ [][NextModel]_vars

(***************************************************************************)
(* The emitter: generate(output, options)                                  *)
(***************************************************************************)
VA_WRAPPERS == 17       \* range(17): forwarding wrappers of a variadic method
VA_SIGNATURES == 17     \* range(17): registrations of a variadic method
max_args == 16 + 1      \* generic dispatch arities

\* pieces of a C++ parameter list
Param(name) == [type |-> "Value", name |-> name]
Comma == [type |-> ",", name |-> <<>>]
VarArgsParam == [type |-> "const std::initializer_list<Value> &",
                 name |-> <<"v","a","r","_","a","r","g","s">>]
ReceiverName == <<"r","e","c","e","i","v","e","r">>

\* the pieces of a parameter list that declare a parameter
Declared(params) == SelectSeq(params, LAMBDA p : p # Comma)

\* what a block of generate does: the writes it makes, then the exception it
\* raises, if any
Wrote(lines) == [lines |-> lines, exc |-> None]
Failed(e) == [lines |-> <<>>, exc |-> Some(e)]
\* block w1 followed by block w2; w2 does not run when w1 raised
Then(w1, w2) ==
    IF w1.exc # None THEN w1 ELSE [lines |-> w1.lines \o w2.lines, exc |-> w2.exc]
\* a call that writes nothing and may raise
Called(r) == IF IsRaise(r) THEN Failed(r) ELSE Wrote(<<>>)

\* debug_sig (line 243), given the value sig of method.signature()
debug_sig(cls, sig) == cls.name \o <<".">> \o sig

\* a variant of the label below that never looks at the annotation
error_name_unannotated(arg) == Capitalize(arg.name)

\* error_name (lines 257-261)
error_name(arg) == IF arg.error_name = None THEN Capitalize(arg.name) ELSE arg.error_name[1]

\* a variant of the checked conversion call below that reports the zero-based
\* index
Checked_zero_based(fn, tparam, sig, arg, i) ==
    Ok([fn |-> fn, tparam |-> tparam, sig |-> sig, label |-> error_name(arg),
        index |-> i, raw |-> raw_name(arg)])

\* a checked conversion call
Checked(fn, tparam, sig, arg, i) ==
    Ok([fn |-> fn, tparam |-> tparam, sig |-> sig, label |-> error_name(arg),
        index |-> i + 1, raw |-> raw_name(arg)])

\* cast_expr of one argument (lines 263-278); i is the zero-based enumerate index
cast_expr(arg, i, sig) ==
    IF arg.type = TypeValue
    THEN Ok([fn |-> "", tparam |-> <<>>, sig |-> <<>>, label |-> <<>>, index |-> 0,
             raw |-> raw_name(arg)])
    ELSE IF StartsWith(arg.type, <<"O","b","j">>)
    THEN Checked("checkArg", SelectSeq(arg.type, LAMBDA c : c # "*"), sig, arg, i)
    ELSE IF arg.type = <<"s","t","d",":",":","s","t","r","i","n","g">>
    THEN Checked("checkString", <<>>, sig, arg, i)
    ELSE IF arg.type = TypeDouble
    THEN Checked("checkDouble", <<>>, sig, arg, i)
    ELSE IF arg.type = TypeInt
    THEN Checked("checkInt", <<>>, sig, arg, i)
    ELSE Raise("Unknown arg type", <<arg.type, sig>>)

\* line 280 for one argument, or the exception of line 278
coerce_line(arg, cast) ==
    IF IsRaise(cast) THEN Failed(cast)
    ELSE Wrote(<<[kind |-> "coerce", type |-> arg.type, typed |-> typed_name(arg),
                  cast |-> cast.val]>>)

\* the argument loop (lines 256-280), from the i-th argument (1-based) on
RECURSIVE CoerceLines(_, _, _)
CoerceLines(args, i, sig) ==
    IF i > Len(args) THEN Wrote(<<>>)
    ELSE Then(coerce_line(args[i], cast_expr(args[i], i - 1, sig)),
              CoerceLines(args, i + 1, sig))

\* a variant of the conversion below that boxes a bool as a number
return_value_bool_number(t, sig) ==
    IF t = TypeVoid THEN Ok("NULL_VAL")
    ELSE IF t = TypeValue THEN Ok("ret")
    ELSE IF t = <<"s","t","d",":",":","s","t","r","i","n","g">>
    THEN Ok("encode_object(ObjString::New(ret))")
    ELSE IF t = <<"b","o","o","l">> \/ t = TypeInt \/ t = TypeDouble THEN Ok("encode_number(ret)")
    ELSE IF StartsWith(t, <<"O","b","j">>) THEN Ok("encode_object(ret)")
    ELSE Raise("Invalid return type", <<t, sig>>)

\* return_value (lines 304-318)
return_value(t, sig) ==
    IF t = TypeVoid THEN Ok("NULL_VAL")
    ELSE IF t = TypeValue THEN Ok("ret")
    ELSE IF t = <<"s","t","d",":",":","s","t","r","i","n","g">>
    THEN Ok("encode_object(ObjString::New(ret))")
    ELSE IF t = <<"b","o","o","l">> THEN Ok("encode_object(ObjBool::Get(ret))")
    ELSE IF t = TypeInt \/ t = TypeDouble THEN Ok("encode_number(ret)")
    ELSE IF StartsWith(t, <<"O","b","j">>) THEN Ok("encode_object(ret)")
    ELSE Raise("Invalid return type", <<t, sig>>)

\* lines 320-321, or the exception of line 318
return_lines(rv) ==
    IF IsRaise(rv) THEN Failed(rv)
    ELSE Wrote(<<[kind |-> "return", value |-> rv.val], [kind |-> "end"]>>)

\* lines 231-234 with the receiver parameter left out wherever no receiver is
\* resolved from it
receiver_def_resolved(cls, method) ==
    IF method.static \/ cls.name = NULL_CLASS \/ cls.name = NUMBER_CLASS
    THEN <<>> ELSE <<Param(ReceiverName)>>

\* receiver_def (lines 231-234)
receiver_def(cls, method) ==
    IF cls.name = NUMBER_CLASS /\ ~method.static THEN <<>> ELSE <<Param(ReceiverName)>>

\* args_str (lines 236-241), given ", ".join(...) of the parameters of the arguments
args_str(joined, receiver, variadic) ==
    (IF joined # <<>> /\ receiver # <<>> THEN <<Comma>> ELSE <<>>)
    \o joined
    \o (IF variadic THEN <<Comma, VarArgsParam>> ELSE <<>>)

\* the first line of a trampoline (line 244), given the value of method_name()
def_line(cls, method, symbol) ==
    [kind |-> "def",
     symbol |-> symbol,
     params |-> receiver_def(cls, method)
                \o args_str(Join([i \in DOMAIN method.args |->
                                     Param(raw_name(method.args[i]))], Comma),
                            receiver_def(cls, method),
                            method.special_type = KindVariadic)]

\* a variant of the lines below that does not look at the option
gc_lines_always(gc) == <<[kind |-> "gc"]>>

\* lines 246-248
gc_lines(gc) == IF gc THEN <<[kind |-> "gc"]>> ELSE <<>>

\* lines 250-254
receiver_lines(cls, method, sig) ==
    IF cls.name = NULL_CLASS
    THEN <<[kind |-> "null_receiver", cls |-> cls.name]>>
    ELSE IF ~method.static /\ ~(cls.name = NUMBER_CLASS)
    THEN <<[kind |-> "check_receiver", cls |-> cls.name, sig |-> sig]>>
    ELSE <<>>

\* lines 284-286
capture_lines(method) ==
    IF method.return_type # TypeVoid
    THEN <<[kind |-> "capture", type |-> method.return_type]>> ELSE <<>>

\* a variant of the call below that looks at the number class before the
\* static qualifier
call_line_instance_first(cls, method) ==
    [kind |-> "call",
     via |-> IF cls.name = NUMBER_CLASS THEN "Class::Instance()->"
             ELSE IF method.static THEN "Class::" ELSE "obj->",
     cls |-> cls.name,
     name |-> method.name,
     args |-> [i \in DOMAIN method.args |-> typed_name(method.args[i])]
              \o (IF method.special_type = KindVariadic THEN <<VarArgsParam.name>> ELSE <<>>)]

\* lines 288-301
call_line(cls, method) ==
    [kind |-> "call",
     via |-> IF method.static THEN "Class::"
             ELSE IF cls.name = NUMBER_CLASS THEN "Class::Instance()->" ELSE "obj->",
     cls |-> cls.name,
     name |-> method.name,
     args |-> [i \in DOMAIN method.args |-> typed_name(method.args[i])]
              \o (IF method.special_type = KindVariadic THEN <<VarArgsParam.name>> ELSE <<>>)]

\* a forwarding wrapper that leaves its last value out of the packed list
va_wrapper_short(symbol, num) ==
    [kind |-> "va_def",
     symbol |-> va_name(symbol, num),
     params |-> Join(<<Param(<<"r">>)>> \o [n \in 1..num |-> Param(<<"a">> \o IntStr(n - 1))],
                     Comma),
     callee |-> symbol,
     actuals |-> << [name |-> <<"r">>],
                    [list |-> [n \in 1..(num - 1) |-> <<"a">> \o IntStr(n - 1)]] >>]

\* the forwarding wrapper number num of a variadic method (lines 330-335),
\* given the value symbol of method.method_name()
va_wrapper(symbol, num) ==
    [kind |-> "va_def",
     symbol |-> va_name(symbol, num),
     params |-> Join(<<Param(<<"r">>)>> \o [n \in 1..num |-> Param(<<"a">> \o IntStr(n - 1))],
                     Comma),
     callee |-> symbol,
     actuals |-> << [name |-> <<"r">>],
                    [list |-> [n \in 1..num |-> <<"a">> \o IntStr(n - 1)]] >>]

\* lines 328-335
va_wrappers(method, symbol) ==
    IF method.special_type = KindVariadic
    THEN [n \in 1..VA_WRAPPERS |-> va_wrapper(symbol, n - 1)] ELSE <<>>

\* lines 244-335 for one method, given the values of signature() and method_name()
trampoline_lines(cls, method, gc, sig, symbol) ==
    Then(Wrote(<<def_line(cls, method, symbol)>> \o gc_lines(gc)
               \o receiver_lines(cls, method, sig)),
    Then(CoerceLines(method.args, 1, sig),
    Then(Wrote(<<[kind |-> "indent"]>> \o capture_lines(method) \o <<call_line(cls, method)>>),
    Then(return_lines(return_value(method.return_type, sig)),
         Wrote(va_wrappers(method, symbol))))))

\* lines 243-335 for one method, given the results of signature() and method_name()
method_block(cls, method, gc, sig, symbol) ==
    IF IsRaise(sig) THEN Failed(sig)
    ELSE trampoline_lines(cls, method, gc, debug_sig(cls, sig.val), symbol.val)

\* the body of the loop over cls.methods (lines 230-335) for one method
method_lines(cls, method, gc) ==
    method_block(cls, method, gc, signature(method), method_name(method))

\* every expansion registered under the signature of the method itself
va_signature_fixed(full, num) == full

\* signature[:-1], then "," if num != 0 and signature[-1] == '_', the num
\* placeholders and ")" (lines 352-358), given the value full of method.signature()
va_signature(full, num) ==
    SubSeq(full, 1, Len(full) - 1)
    \o (IF num # 0 /\ full[Len(full) - 1] = "_" THEN <<",">> ELSE <<>>)
    \o Placeholders(num)
    \o <<")">>

\* one cls->AddFunction line
add_line(sig, symbol) == [kind |-> "add", signature |-> sig, symbol |-> symbol]

\* the registrations of a variadic method (lines 350-362)
va_add_lines(sig, symbol) ==
    <<[kind |-> "open"]>>
    \o [n \in 1..VA_SIGNATURES |-> add_line(va_signature(sig, n - 1), va_name(symbol, n - 1))]
    \o <<[kind |-> "close"]>>

\* lines 339-362 with every method guarded by isMeta
register_block_meta(method, sig, symbol) ==
    Then(Wrote(<<[kind |-> "if", cond |-> "isMeta"]>>),
         IF IsRaise(sig) THEN Failed(sig)
         ELSE IF method.special_type # KindVariadic
         THEN Wrote(<<add_line(sig.val, symbol.val)>>)
         ELSE Wrote(va_add_lines(sig.val, symbol.val)))

\* lines 339-362 for one method, given the results of signature() and method_name()
register_block(method, sig, symbol) ==
    Then(Wrote(<<[kind |-> "if", cond |-> IF method.static THEN "isMeta" ELSE "!isMeta"]>>),
         IF IsRaise(sig) THEN Failed(sig)
         ELSE IF method.special_type # KindVariadic
         THEN Wrote(<<add_line(sig.val, symbol.val)>>)
         ELSE Wrote(va_add_lines(sig.val, symbol.val)))

\* the registrations of one method (lines 339-362)
register_method(method) == register_block(method, signature(method), method_name(method))

\* the loop over cls.methods of the registration function, from method j on
RECURSIVE register_from(_, _)
register_from(cls, j) ==
    IF j > Len(cls.methods) THEN Wrote(<<>>)
    ELSE Then(register_method(cls.methods[j]), register_from(cls, j + 1))

\* the registration function of a class (lines 337-364)
register_lines(cls) ==
    Then(Wrote(<<[kind |-> "register_def", cls |-> cls.name]>>),
    Then(register_from(cls, 1),
         Wrote(<<[kind |-> "end"]>>)))

\* a variant of the cases below that does not return after the registration
RECURSIVE bind_cases_fallthrough(_, _)
bind_cases_fallthrough(cs, j) ==
    IF j > Len(cs) THEN <<>>
    ELSE << [kind |-> "bind_if", type |-> cs[j].name],
            [kind |-> "bind_register", cls |-> cs[j].name, args |-> <<"cls", "isMeta">>],
            [kind |-> "bind_endif"] >> \o bind_cases_fallthrough(cs, j + 1)

\* ObjClass::Bind (lines 366-374)
RECURSIVE bind_cases(_, _)
bind_cases(cs, j) ==
    IF j > Len(cs) THEN <<>>
    ELSE << [kind |-> "bind_if", type |-> cs[j].name],
            [kind |-> "bind_register", cls |-> cs[j].name, args |-> <<"cls", "isMeta">>],
            [kind |-> "bind_return"],
            [kind |-> "bind_endif"] >> \o bind_cases(cs, j + 1)

bind_lines(cs) ==
    <<[kind |-> "comment", text |-> "Binding setup method, called by hand-written C++ classes"],
      [kind |-> "bind_def", params |-> <<"cls", "type", "isMeta">>]>>
    \o bind_cases(cs, 1)
    \o <<[kind |-> "abort", text |-> "Unknown bindings class '%s'"], [kind |-> "end"]>>

\* fnDispatch<i> (lines 381-397)
fn_dispatch(i) ==
    LET arg_names == [n \in 1..i |-> <<"v">> \o IntStr(n - 1)]
        upvalues == <<"u","p","v","a","l","u","e","s">>
    IN << [kind |-> "fn_def", i |-> i,
           params |-> <<"fn", "upvalues">>, values |-> arg_names],
          [kind |-> "typedef", name |-> "withUpvalue", values |-> i, upvalues |-> TRUE],
          [kind |-> "typedef", name |-> "withoutUpvalue", values |-> i, upvalues |-> FALSE],
          [kind |-> "if_upvalues"],
          [kind |-> "fn_call", as |-> "withUpvalue", args |-> <<upvalues>> \o arg_names],
          [kind |-> "endif"],
          [kind |-> "fn_call", as |-> "withoutUpvalue", args |-> arg_names],
          [kind |-> "end"] >>

\* a variant of the arity test below that passes a[1]..a[i]
entry_case_shifted(i) ==
    << [kind |-> "if_arity", arity |-> i],
       [kind |-> "entry_call", i |-> i, args |-> [n \in 1..i |-> n]] >>

\* one arity test of ObjFn::FunctionDispatch (lines 403-405)
entry_case(i) ==
    << [kind |-> "if_arity", arity |-> i],
       [kind |-> "entry_call", i |-> i, args |-> [n \in 1..i |-> n - 1]] >>

RECURSIVE Flat(_)
Flat(ss) == IF Len(ss) = 0 THEN <<>> ELSE Head(ss) \o Flat(Tail(ss))

\* lines 378-407
dispatch_lines ==
    <<[kind |-> "comment", text |-> "ObjFn variable-argument dispatch"]>>
    \o Flat([i \in 1..max_args |-> fn_dispatch(i - 1)])
    \o <<[kind |-> "entry_def"], [kind |-> "entry_begin"]>>
    \o Flat([i \in 1..max_args |-> entry_case(i - 1)])
    \o <<[kind |-> "abort", text |-> "Unsupported function arity: %d"], [kind |-> "end"]>>

\* the name of the i-th input file; every second one is a C++ source file
FileName(i) ==
    <<"f">> \o IntStr(i) \o (IF i % 2 = 0 THEN <<".","c","p","p">> ELSE <<".","h">>)

\* lines 223-224: a C++ file is replaced by its header
include_name(filename) ==
    IF Len(filename) >= 4 /\ SubSeq(filename, Len(filename) - 3, Len(filename)) = <<".","c","p","p">>
    THEN SubSeq(filename, 1, Len(filename) - 3) \o <<"h">>
    ELSE filename

\* lines 214-225
prolog_lines(fs) ==
    << [kind |-> "comment", text |-> "Auto-generated file (from gen_bindings.py), DO NOT EDIT MANUALLY"],
       [kind |-> "define", name |-> "BINDINGS_GEN"],
       [kind |-> "include", file |-> <<"b","i","n","d","i","n","g","_","u","t","i","l","s",".","h">>],
       [kind |-> "include", file |-> <<"E","r","r","o","r","s",".","h">>],
       [kind |-> "include", file |-> <<"W","r","e","n","R","u","n","t","i","m","e",".","h">>],
       [kind |-> "comment", text |-> "Includes for referenced files:"] >>
    \o [i \in DOMAIN fs |-> [kind |-> "include", file |-> include_name(FileName(i))]]

(***************************************************************************)
(* generate as a state machine: one action per block of the function       *)
(***************************************************************************)
\* lines 209-212 with the class list kept from one run to the next
ParseHeaders_kept ==
    /\ pc = "parse"
    /\ classes' = classes \o Flat(files)
    /\ pc' = "prolog"
    /\ UNCHANGED <<testvars, recv, ret, runs, headers, files, pre_entry_gc, output, ci, mi, exc>>

\* lines 209-212
ParseHeaders ==
    /\ pc = "parse"
    /\ classes' = Flat(files)
    /\ pc' = "prolog"
    /\ UNCHANGED <<testvars, recv, ret, runs, headers, files, pre_entry_gc, output, ci, mi, exc>>

\* lines 214-225
WriteProlog ==
    /\ pc = "prolog"
    /\ output' = output \o prolog_lines(files)
    /\ ci' = 1
    /\ pc' = "class"
    /\ UNCHANGED <<testvars, recv, ret, runs, headers, files, pre_entry_gc, classes, mi, exc>>

\* lines 227-228
BeginClass ==
    /\ pc = "class"
    /\ ci <= Len(classes)
    /\ output' = output \o <<[kind |-> "class_comment", cls |-> classes[ci].name]>>
    /\ mi' = 1
    /\ pc' = "method"
    /\ UNCHANGED <<testvars, recv, ret, runs, headers, files, pre_entry_gc, classes, ci, exc>>

\* the writes of block w reach the output; its exception, if any, ends the run
Emit(w, next) ==
    /\ output' = output \o w.lines
    /\ exc' = w.exc
    /\ pc' = IF w.exc = None THEN next ELSE "raised"

\* lines 229-335, one iteration
GenMethod ==
    /\ pc = "method"
    /\ mi <= Len(classes[ci].methods)
    /\ Emit(method_lines(classes[ci], classes[ci].methods[mi], pre_entry_gc), "method")
    /\ mi' = IF pc' = "raised" THEN mi ELSE mi + 1
    /\ UNCHANGED <<testvars, recv, ret, runs, headers, files, pre_entry_gc, classes, ci>>

\* lines 337-364 and the step to the next class
GenRegister ==
    /\ pc = "method"
    /\ mi > Len(classes[ci].methods)
    /\ Emit(register_lines(classes[ci]), "class")
    /\ ci' = IF pc' = "raised" THEN ci ELSE ci + 1
    /\ UNCHANGED <<testvars, recv, ret, runs, headers, files, pre_entry_gc, classes, mi>>

\* lines 366-374
GenBind ==
    /\ pc = "class"
    /\ ci > Len(classes)
    /\ output' = output \o bind_lines(classes)
    /\ pc' = "dispatch"
    /\ UNCHANGED <<testvars, recv, ret, runs, headers, files, pre_entry_gc, classes, ci, mi, exc>>

\* lines 376-407
GenDispatch ==
    /\ pc = "dispatch"
    /\ output' = output \o dispatch_lines
    /\ pc' = "done"
    /\ UNCHANGED <<testvars, recv, ret, runs, headers, files, pre_entry_gc, classes, ci, mi, exc>>

(***************************************************************************)
(* Inputs of generate: what parse_file returns for the files of a run.     *)
(* The headers are written declaration by declaration before the run: a    *)
(* new file, a class declaration in the last file, or a method declaration *)
(* in the last class.                                                      *)
(***************************************************************************)
GenClassNames == {ObjFoo, NUMBER_CLASS}
GenNames == {Bar}
GenKinds == {KindPlain, KindVariadic}
NamedClassNames == {ObjFoo, NUMBER_CLASS}
SignatureNames == {Bar, OperatorFoo, OPERATOR_SUBSCRIPT, OPERATOR_SUBSCRIPT_SET}

RECURSIVE Sum(_)
Sum(ns) == IF Len(ns) = 0 THEN 0 ELSE Head(ns) + Sum(Tail(ns))

\* the number of files, classes and methods declared
Items(fs) ==
    Len(fs) + Sum([i \in DOMAIN fs |->
                      Len(fs[i]) + Sum([j \in DOMAIN fs[i] |-> Len(fs[i][j].methods)])])

LastFile == files[Len(files)]
LastClass == LastFile[Len(LastFile)]

NewFile(max) ==
    /\ pc = "input"
    /\ Items(files) < max
    /\ files' = Append(files, <<>>)
    /\ UNCHANGED <<testvars, recv, ret, runs, headers, pre_entry_gc, classes, output, pc, ci, mi, exc>>

DeclareClass(max, classNames) ==
    /\ pc = "input"
    /\ Items(files) < max
    /\ Len(files) > 0
    /\ \E c \in classNames :
         files' = [files EXCEPT ![Len(files)] = Append(@, Class(c, <<>>))]
    /\ UNCHANGED <<testvars, recv, ret, runs, headers, pre_entry_gc, classes, output, pc, ci, mi, exc>>

DeclareMethod(max, names, kinds) ==
    /\ pc = "input"
    /\ Items(files) < max
    /\ Len(files) > 0
    /\ Len(LastFile) > 0
    /\ \E m \in MethodsOver({LastClass.name}, names, kinds, MaxArgs) :
         files' = [files EXCEPT ![Len(files)] =
                      [@ EXCEPT ![Len(@)].methods = Append(@, m)]]
    /\ UNCHANGED <<testvars, recv, ret, runs, headers, pre_entry_gc, classes, output, pc, ci, mi, exc>>

\* main (lines 410-425): the options are read and generate is called
Main(flags) ==
    /\ pc = "input"
    /\ pre_entry_gc' \in flags
    /\ pc' = "parse"
    /\ UNCHANGED <<testvars, recv, ret, runs, headers, files, classes, output, ci, mi, exc>>

Generate ==
    \/ ParseHeaders
    \/ WriteProlog
    \/ BeginClass
    \/ GenMethod
    \/ GenRegister
    \/ GenBind
    \/ GenDispatch

Init ==
    /\ TestIdle
    /\ recv = <<>>
    /\ ret = <<>>
    /\ files = <<>>
    /\ pre_entry_gc = FALSE
    /\ classes = <<>>
    /\ output = <<>>
    /\ pc = "input"
    /\ ci = 0
    /\ mi = 0
    /\ exc = None
    /\ runs = <<>>
    /\ headers = <<>>

Next ==
    \/ NewFile(MaxItems)
    \/ DeclareClass(MaxItems, GenClassNames)
    \/ DeclareMethod(MaxItems, GenNames, GenKinds)
    \/ Main({FALSE})
    \/ Generate

\* one header that declares one class
InitNamed ==
    /\ TestIdle
    /\ recv = <<>>
    /\ ret = <<>>
    /\ files \in {<< <<Class(c, <<>>)>> >> : c \in NamedClassNames}
    /\ pre_entry_gc = FALSE
    /\ classes = <<>>
    /\ output = <<>>
    /\ pc = "input"
    /\ ci = 0
    /\ mi = 0
    /\ exc = None
    /\ runs = <<>>
    /\ headers = <<>>

NextNamed ==
    \/ DeclareMethod(MaxNamedItems, SignatureNames, Kinds)
    \/ Main({FALSE})
    \/ Generate

\* runs over methods named Bar, the debug flag not set
Spec == Init /\ [][Next]_vars
\* runs over one class with methods of every kind of name, the debug flag not set
SpecNamed == InitNamed /\ [][NextNamed]_vars

(***************************************************************************)
(* Runs over one class with one method whose arguments are of every type   *)
(* the emitter tells apart, annotated or not, with and without the debug   *)
(* flag.                                                                   *)
(***************************************************************************)
MaxTypedArgs == 1   \* binding-relevant arguments of the method of a run of SpecTyped

TypeObjFoo == <<"O","b","j","F","o","o","*">>
TypeString == <<"s","t","d",":",":","s","t","r","i","n","g">>
TypeFloat == <<"f","l","o","a","t">>
ArgTypes == {TypeValue, TypeObjFoo, TypeString, TypeDouble, TypeInt, TypeFloat}
ReturnTypes == {TypeVoid, TypeValue}
MyArg == <<"m","y","A","r","g">>
\* the label of an ARG("the index") annotation
TheIndex == <<"t","h","e"," ","i","n","d","e","x">>
Labels == {None, Some(TheIndex)}
TypedClassNames == {ObjFoo, NUMBER_CLASS, NULL_CLASS}

\* the argument lists of length n that parse_file builds: positions 0..n-1
TypedArgs(n) ==
    {[i \in 1..n |-> Arg(t[i], MyArg, i - 1, e[i])] :
        t \in [1..n -> ArgTypes], e \in [1..n -> Labels]}

TypedMethods(c) ==
    {Method(r, Bar, a, s, k, c) :
        r \in ReturnTypes, a \in UNION {TypedArgs(n) : n \in 0..MaxTypedArgs},
        s \in BOOLEAN, k \in Kinds}

InitTyped ==
    /\ TestIdle
    /\ recv = <<>>
    /\ ret = <<>>
    /\ files \in UNION {{<< <<Class(c, <<m>>)>> >> : m \in TypedMethods(c)} :
                         c \in TypedClassNames}
    /\ pre_entry_gc = FALSE
    /\ classes = <<>>
    /\ output = <<>>
    /\ pc = "input"
    /\ ci = 0
    /\ mi = 0
    /\ exc = None
    /\ runs = <<>>
    /\ headers = <<>>

NextTyped ==
    \/ Main(BOOLEAN)
    \/ Generate

SpecTyped == InitTyped /\ [][NextTyped]_vars

(***************************************************************************)
(* Runs made one after the other over a header that declares ObjNumClass:  *)
(* between two runs methods may be added to the header and the debug flag  *)
(* may change.                                                             *)
(***************************************************************************)
InitRuns ==
    /\ TestIdle
    /\ recv = <<>>
    /\ ret = <<>>
    /\ files = << <<Class(NUMBER_CLASS, <<>>)>> >>
    /\ pre_entry_gc = FALSE
    /\ classes = <<>>
    /\ output = <<>>
    /\ pc = "input"
    /\ ci = 0
    /\ mi = 0
    /\ exc = None
    /\ runs = <<>>
    /\ headers = <<>>

\* main is run again (lines 410-425): the run that has ended is kept in runs,
\* and the new run starts with an empty output
Again(max) ==
    /\ pc \in {"done", "raised"}
    /\ Len(runs) + 1 < max
    /\ runs' = Append(runs, [files |-> files, pre_entry_gc |-> pre_entry_gc,
                             output |-> output, exc |-> exc])
    /\ output' = <<>>
    /\ exc' = None
    /\ ci' = 0
    /\ mi' = 0
    /\ pc' = "input"
    /\ UNCHANGED <<testvars, recv, ret, headers, files, pre_entry_gc, classes>>

NextRuns ==
    \/ DeclareMethod(MaxNamedItems, GenNames, {KindPlain})
    \/ Main(BOOLEAN)
    \/ Generate
    \/ Again(MaxRuns)

SpecRuns == InitRuns /\ [][NextRuns]_vars

(***************************************************************************)
(* The scanner: parse_file.  A line is held as what the patterns make of   *)
(* it: the groups of METHOD_REGEX for a method declaration, the name group *)
(* of CLASS_REGEX for a class boundary, nothing for any other line.  The   *)
(* argument list is text, split and matched as the code does it; the only  *)
(* whitespace in it is the space.                                          *)
(***************************************************************************)
MaxLines == 2       \* lines of the header of a run of SpecParse

IsSpace(c) == c = " "
WordChars ==
    {UPPER[i] : i \in DOMAIN UPPER} \cup {LOWER[i] : i \in DOMAIN LOWER}
    \cup {DIGITS[i] : i \in DOMAIN DIGITS} \cup {"_"}
IsWord(c) == c \in WordChars

\* the number of whitespace characters s starts with, and ends with
LeadingSpaces(s) ==
    CHOOSE k \in 0..Len(s) :
        (\A i \in 1..k : IsSpace(s[i])) /\ (k = Len(s) \/ ~IsSpace(s[k + 1]))
TrailingSpaces(s) ==
    CHOOSE k \in 0..Len(s) :
        (\A i \in 1..k : IsSpace(s[Len(s) + 1 - i]))
        /\ (k = Len(s) \/ ~IsSpace(s[Len(s) - k]))
\* the number of characters of \w, and of [*&], s ends with
TrailingWord(s) ==
    CHOOSE k \in 0..Len(s) :
        (\A i \in 1..k : IsWord(s[Len(s) + 1 - i]))
        /\ (k = Len(s) \/ ~IsWord(s[Len(s) - k]))
TrailingStars(s) ==
    CHOOSE k \in 0..Len(s) :
        (\A i \in 1..k : s[Len(s) + 1 - i] \in {"*", "&"})
        /\ (k = Len(s) \/ s[Len(s) - k] \notin {"*", "&"})

\* s.strip(), and s with its trailing whitespace removed
Strip(s) ==
    IF LeadingSpaces(s) = Len(s) THEN <<>>
    ELSE SubSeq(s, LeadingSpaces(s) + 1, Len(s) - TrailingSpaces(s))
RStrip(s) == SubSeq(s, 1, Len(s) - TrailingSpaces(s))

\* s.replace(c, "")
Remove(s, c) == SelectSeq(s, LAMBDA x : x # c)

\* s.split(c)
RECURSIVE Split(_, _)
Split(s, c) ==
    IF \A i \in DOMAIN s : s[i] # c THEN <<s>>
    ELSE <<SubSeq(s, 1, (CHOOSE i \in DOMAIN s : s[i] = c /\ \A j \in 1..(i - 1) : s[j] # c) - 1)>>
         \o Split(SubSeq(s, (CHOOSE i \in DOMAIN s : s[i] = c /\ \A j \in 1..(i - 1) : s[j] # c) + 1,
                         Len(s)), c)

\* the text an annotation starts with, after the leading whitespace
ARG_OPEN == <<"A","R","G","(","\"">>

\* the match of rest, the text from ARG(" on, given the position j of the first
\* quotation mark after ARG(": the label is not empty and ") follows it
info_match(arg_str, k, rest, j) ==
    IF j > 6 /\ j < Len(rest) /\ rest[j + 1] = ")"
    THEN Some([whole |-> SubSeq(arg_str, 1, k + j + 1), error_name |-> SubSeq(rest, 6, j - 1)])
    ELSE None

\* ARG_INFO_REGEX.match(arg_str): None, or group(0) and the error_name group
ARG_INFO_REGEX(arg_str) ==
    LET k == LeadingSpaces(arg_str)
        rest == SubSeq(arg_str, k + 1, Len(arg_str))
    IN IF ~StartsWith(rest, ARG_OPEN) THEN None
       ELSE IF \A j \in 6..Len(rest) : rest[j] # "\"" THEN None
       ELSE info_match(arg_str, k, rest,
                       CHOOSE j \in 6..Len(rest) :
                           rest[j] = "\"" /\ \A i \in 6..(j - 1) : rest[i] # "\"")

\* the match of s, an argument without trailing whitespace, given the position p
\* of the first character of the trailing \w+ and the position q of the last
\* character before the [*&]* in front of it: q must hold the \s, with at least
\* one character before it for the .+
arg_match(s, p, q) ==
    IF p <= Len(s) /\ q >= 2 /\ IsSpace(s[q])
    THEN Some([type |-> SubSeq(s, 1, p - 1), name |-> SubSeq(s, p, Len(s))])
    ELSE None

\* ARG_REGEX.match(arg_str): None, or the type and name groups; the type group
\* is given with the leading whitespace the pattern leaves out of it, which the
\* caller's replace(" ", "") removes anyway
ARG_REGEX(arg_str) ==
    arg_match(RStrip(arg_str),
              Len(RStrip(arg_str)) - TrailingWord(RStrip(arg_str)) + 1,
              Len(RStrip(arg_str)) - TrailingWord(RStrip(arg_str))
                  - TrailingStars(SubSeq(RStrip(arg_str), 1,
                                         Len(RStrip(arg_str)) - TrailingWord(RStrip(arg_str)))))
\* the texts of the special kinds parse_file accepts (the list of line 168)
KindText(k) ==
    IF k = KindGetter THEN <<"g","e","t","t","e","r">>
    ELSE IF k = KindVariadic THEN <<"v","a","r","i","a","d","i","c">>
    ELSE <<>>
SpecialTypes == Kinds

\* lines 164-166: the qualifier group, None when the line has none
is_static(stat_virt) ==
    stat_virt # None /\ Strip(stat_virt[1]) = <<"s","t","a","t","i","c">>

\* a variant of the step below that takes an entry without a type as a name
parse_matched_arg_lenient(arg_str, info, m, pos) ==
    IF m = None THEN Ok(Arg(<<>>, arg_str, pos, None))
    ELSE Ok(Arg(Remove(m[1].type, " "), m[1].name, pos,
                IF info = None THEN None ELSE Some(info[1].error_name)))

\* lines 176-194, one entry of the argument list: the annotation is taken off,
\* the rest is split into type and name; pos is len(args) at the append
parse_matched_arg(arg_str, info, m, pos) ==
    IF m = None THEN Raise("Could not match arguments", <<arg_str>>)
    ELSE Ok(Arg(Remove(m[1].type, " "), m[1].name, pos,
                IF info = None THEN None ELSE Some(info[1].error_name)))

parse_stripped_arg(arg_str, info, pos) ==
    parse_matched_arg(arg_str, info, ARG_REGEX(arg_str), pos)

parse_arg(arg_str, pos) ==
    IF ARG_INFO_REGEX(arg_str) = None THEN parse_stripped_arg(arg_str, None, pos)
    ELSE parse_stripped_arg(
             Strip(SubSeq(arg_str, Len(ARG_INFO_REGEX(arg_str)[1].whole) + 1, Len(arg_str))),
             ARG_INFO_REGEX(arg_str), pos)

\* lines 171-194: the loop over args_str.split(","), args being the arguments
\* appended so far; an empty args_str (text) gives no argument
RECURSIVE parse_entries(_, _, _)
parse_entries(entries, i, args) ==
    IF i > Len(entries) THEN Ok(args)
    ELSE IF IsRaise(parse_arg(entries[i], Len(args))) THEN parse_arg(entries[i], Len(args))
    ELSE parse_entries(entries, i + 1, Append(args, parse_arg(entries[i], Len(args)).val))

\* a variant of the step below that splits the empty text as well
parse_args_split(text) == parse_entries(Split(text, ","), 1, <<>>)

parse_args(text) ==
    IF text = <<>> THEN Ok(<<>>) ELSE parse_entries(Split(text, ","), 1, <<>>)

\* line 168: the test of the special kind
valid_special_type(type) == \E k \in SpecialTypes : KindText(k) = type

\* lines 196-202, given the parsed arguments: the trailing collection of a
\* variadic method is dropped (pop of an empty list raises), the method is
\* appended to the current class (there is none before the first class line)
append_method(line, cs, args, k) ==
    IF k = KindVariadic /\ args = <<>> THEN Raise("IndexError", <<>>)
    ELSE IF cs = <<>> THEN Raise("AttributeError", <<>>)
    ELSE Ok([cs EXCEPT ![Len(cs)].methods =
                 Append(@, Method(Remove(line.return, " "), line.name,
                                  IF k = KindVariadic THEN SubSeq(args, 1, Len(args) - 1) ELSE args,
                                  is_static(line.stat_virt), k, cs[Len(cs)].name))])

\* lines 156-202, a line METHOD_REGEX matches, given the result of its argument
\* list; both messages name the current class, which takes an attribute of
\* None before the first class line
parse_method_args(line, cs, r) ==
    IF ~valid_special_type(line.type)
    THEN IF cs = <<>> THEN Raise("AttributeError", <<>>)
         ELSE Raise("Invalid special type", <<line.type, cs[Len(cs)].name, line.name>>)
    ELSE IF IsRaise(r)
    THEN IF cs = <<>> THEN Raise("AttributeError", <<>>)
         ELSE Raise(r.kind, <<cs[Len(cs)].name, line.name>> \o r.names)
    ELSE append_method(line, cs, r.val,
                       CHOOSE k \in SpecialTypes : KindText(k) = line.type)

parse_method(line, cs) == parse_method_args(line, cs, parse_args(line.args))

\* lines 137-204: the loop over the lines of one header
RECURSIVE parse_lines(_, _, _)
parse_lines(lines, i, cs) ==
    IF i > Len(lines) THEN Ok(cs)
    ELSE IF lines[i].form = "class"
    THEN parse_lines(lines, i + 1, Append(cs, Class(lines[i].name, <<>>)))
    ELSE IF lines[i].form = "method"
    THEN IF IsRaise(parse_method(lines[i], cs)) THEN parse_method(lines[i], cs)
         ELSE parse_lines(lines, i + 1, parse_method(lines[i], cs).val)
    ELSE parse_lines(lines, i + 1, cs)

parse_file(fi) == parse_lines(fi, 1, <<>>)

\* lines 209-212 of generate: every header is parsed, in the order given
RECURSIVE parse_all(_, _, _)
parse_all(hs, i, parsed) ==
    IF i > Len(hs) THEN Ok(parsed)
    ELSE IF IsRaise(parse_file(hs[i])) THEN parse_file(hs[i])
    ELSE parse_all(hs, i + 1, Append(parsed, parse_file(hs[i]).val))
\* lines 209-212 as one step: the headers are scanned into the class records;
\* an exception of parse_file leaves generate before anything is parsed
Scanned(r) ==
    IF IsRaise(r)
    THEN exc' = Some(r) /\ pc' = "raised" /\ UNCHANGED <<files, classes>>
    ELSE files' = r.val /\ classes' = Flat(r.val) /\ pc' = "prolog" /\ UNCHANGED exc

ScanHeaders ==
    /\ pc = "parse"
    /\ Scanned(parse_all(headers, 1, <<>>))
    /\ UNCHANGED <<testvars, recv, ret, runs, pre_entry_gc, headers, output, ci, mi>>

\* The lines of the headers of SpecParse: a class boundary, a line no pattern
\* matches, and method declarations of class-less or classed position with
\* every accepted special kind and one that is not accepted, with and without
\* the static qualifier, over four argument lists: none, one plain argument, a
\* bare name without a type, and an annotated pointer followed by a second one.
ClassLine(name) == [form |-> "class", name |-> name]
OtherLine == [form |-> "other"]
MethodLine(type, stat_virt, return, name, args) ==
    [form |-> "method", type |-> type, stat_virt |-> stat_virt, return |-> return,
     name |-> name, args |-> args]
Setter == <<"s","e","t","t","e","r">>
LineTypes == {KindText(k) : k \in Kinds} \cup {Setter}
Qualifiers == {None, Some(<<"s","t","a","t","i","c"," ">>)}
ArgsPlain == <<"d","o","u","b","l","e"," ","x">>
ArgsBare == <<"x">>
ArgsAnnotated ==
    <<"A","R","G","(","\"">> \o TheIndex \o <<"\"",")"," ">> \o ObjFoo
    \o <<" ","*","a",","," ","i","n","t"," ","b">>
ArgLists == {<<>>, ArgsPlain, ArgsBare, ArgsAnnotated}
HeaderLines ==
    {ClassLine(ObjFoo), OtherLine}
    \cup {MethodLine(t, q, TypeVoid, Bar, a) : t \in LineTypes, q \in Qualifiers, a \in ArgLists}

InitParse ==
    /\ TestIdle
    /\ recv = None
    /\ ret = None
    /\ runs = <<>>
    /\ headers \in {<<h>> : h \in UNION {[1..n -> HeaderLines] : n \in 0..MaxLines}}
    /\ files = <<>>
    /\ pre_entry_gc = FALSE
    /\ classes = <<>>
    /\ output = <<>>
    /\ pc = "input"
    /\ ci = 0
    /\ mi = 0
    /\ exc = None

NextParse ==
    \/ Main({FALSE})
    \/ ScanHeaders

SpecParse == InitParse /\ [][NextParse]_vars

\* The headers of SpecCoerce: one class with one method declaration, plain or
\* variadic, whose argument list has up to MaxCoerceArgs entries; each entry
\* is written as a header writes it, with or without an annotation, a pointer
\* type with its * next to the name.
MaxCoerceArgs == 2
EndsWith(s, p) == Len(s) >= Len(p) /\ SubSeq(s, Len(s) - Len(p) + 1, Len(s)) = p
Annotation(label) == IF label = None THEN <<>> ELSE ARG_OPEN \o label[1] \o <<"\"", ")", " ">>
Declarator(type, name) ==
    IF EndsWith(type, <<"*">>) THEN SubSeq(type, 1, Len(type) - 1) \o <<" ", "*">> \o name
    ELSE type \o <<" ">> \o name
Entry(type, label) == Annotation(label) \o Declarator(type, MyArg)
Entries == {Entry(t, l) : t \in ArgTypes, l \in Labels}
ArgTexts(n) == {Flat(Join(es, <<",", " ">>)) : es \in [1..n -> Entries]}
CoerceHeaders == {MethodLine(KindText(k), None, TypeVoid, Bar, a) :
                    k \in {KindPlain, KindVariadic},
                    a \in UNION {ArgTexts(n) : n \in 0..MaxCoerceArgs}}

InitCoerce ==
    /\ TestIdle
    /\ recv = None
    /\ ret = None
    /\ runs = <<>>
    /\ headers \in {<< <<ClassLine(ObjFoo), l>> >> : l \in CoerceHeaders}
    /\ files = <<>>
    /\ pre_entry_gc = FALSE
    /\ classes = <<>>
    /\ output = <<>>
    /\ pc = "input"
    /\ ci = 0
    /\ mi = 0
    /\ exc = None

NextCoerce ==
    \/ Main({FALSE})
    \/ ScanHeaders
    \/ WriteProlog
    \/ BeginClass
    \/ GenMethod
    \/ GenRegister
    \/ GenBind
    \/ GenDispatch

SpecCoerce == InitCoerce /\ [][NextCoerce]_vars

\* The headers of SpecReturn: one class with one method declaration, static or
\* not, without arguments or with one int, whose return type is each type
\* generate knows and one it does not; the return group of METHOD_REGEX holds
\* the type with the whitespace, and for a pointer the *, that follow it.
TypeBool == <<"b","o","o","l">>
DeclaredReturns == {TypeVoid, TypeValue, TypeString, TypeBool, TypeInt, TypeDouble, TypeObjFoo, TypeFloat}
ReturnGroup(type) ==
    IF EndsWith(type, <<"*">>) THEN SubSeq(type, 1, Len(type) - 1) \o <<" ", "*">>
    ELSE type \o <<" ">>
ReturnHeaders ==
    {MethodLine(<<>>, q, ReturnGroup(r), Bar, a) :
         q \in Qualifiers, r \in DeclaredReturns, a \in {<<>>, Entry(TypeInt, None)}}

InitReturn ==
    /\ TestIdle
    /\ recv = None
    /\ ret = None
    /\ runs = <<>>
    /\ headers \in {<< <<ClassLine(c), l>> >> : c \in {ObjFoo, NUMBER_CLASS}, l \in ReturnHeaders}
    /\ files = <<>>
    /\ pre_entry_gc = FALSE
    /\ classes = <<>>
    /\ output = <<>>
    /\ pc = "input"
    /\ ci = 0
    /\ mi = 0
    /\ exc = None

NextReturn ==
    \/ Main(BOOLEAN)
    \/ ScanHeaders
    \/ WriteProlog
    \/ BeginClass
    \/ GenMethod
    \/ GenRegister
    \/ GenBind
    \/ GenDispatch

SpecReturn == InitReturn /\ [][NextReturn]_vars

(***************************************************************************)
(* The patterns of the scanner on the text of a line.  SpecScan holds the  *)
(* headers as text; scan_line gives the groups the patterns find in a      *)
(* line, which is what parse_lines works on.                               *)
(***************************************************************************)
\* the number of characters of the set cs that s has from position i on
Run(s, i, cs) ==
    CHOOSE k \in 0..(Len(s) + 1 - i) :
        /\ \A j \in i..(i + k - 1) : s[j] \in cs
        /\ (i + k > Len(s) \/ s[i + k] \notin cs)

\* s has the text p at position i
At(s, i, p) == i + Len(p) - 1 <= Len(s) /\ SubSeq(s, i, i + Len(p) - 1) = p

\* a variant of the step below that keeps the comment
strip_comment_kept(line) == line

\* line.split("//")[0] (line 138)
strip_comment(line) ==
    IF \E i \in 1..(Len(line) - 1) : line[i] = "/" /\ line[i + 1] = "/"
    THEN SubSeq(line, 1, (CHOOSE i \in 1..(Len(line) - 1) :
                              /\ line[i] = "/" /\ line[i + 1] = "/"
                              /\ \A j \in 1..(i - 1) : ~(line[j] = "/" /\ line[j + 1] = "/")) - 1)
    ELSE line

\* CLASS_REGEX.match(line) (line 10): "class", whitespace, a name that starts
\* with Obj, whitespace, then : or {; n is the length of the name, w that of
\* the whitespace after it
class_match(line, from, n, w) ==
    IF n >= 3 /\ At(line, from, <<"O","b","j">>) /\ w >= 1
       /\ from + n + w <= Len(line) /\ line[from + n + w] \in {":", "{"}
    THEN Some([name |-> SubSeq(line, from, from + n - 1)])
    ELSE None

class_name_at(line, from) ==
    class_match(line, from, Run(line, from, WordChars),
                Run(line, from + Run(line, from, WordChars), {" "}))

CLASS_REGEX(line) ==
    IF At(line, 1, <<"c","l","a","s","s">>) /\ Run(line, 6, {" "}) >= 1
    THEN class_name_at(line, 6 + Run(line, 6, {" "}))
    ELSE None

\* the number of characters s has from position i on before the first c
RunUntil(s, i, c) ==
    CHOOSE k \in 0..(Len(s) + 1 - i) :
        /\ \A j \in i..(i + k - 1) : s[j] # c
        /\ (i + k > Len(s) \/ s[i + k] = c)

ReturnChars == WordChars \cup {"*", ":"}

\* the end of METHOD_REGEX, after the closing parenthesis of the arguments:
\* (?:\s+const)?\s*;$ on the text sfx, which starts with a whitespaces
method_end(sfx, a) ==
    \/ a + 1 = Len(sfx) /\ sfx[a + 1] = ";"
    \/ /\ a >= 1
       /\ At(sfx, a + 1, <<"c","o","n","s","t">>)
       /\ a + 6 + Run(sfx, a + 6, {" "}) = Len(sfx)
       /\ sfx[Len(sfx)] = ";"

\* the groups, given the positions r of the return group, nm of the name, lp
\* of the parenthesis that opens the arguments and rp of the last closing
\* parenthesis of the line, the only one the rest of the pattern can follow
method_groups(line, type, stat_virt, r, nm, lp, rp) ==
    IF method_end(SubSeq(line, rp + 1, Len(line)), Run(line, rp + 1, {" "}))
    THEN Some(MethodLine(type, stat_virt, SubSeq(line, r, nm - 1),
                         SubSeq(line, nm, nm + Run(line, nm, WordChars) - 1),
                         SubSeq(line, lp + 1, rp - 1)))
    ELSE None

\* \((?P<args>.*)\) from the position lp that follows the name and \s*
method_args(line, type, stat_virt, r, nm, lp) ==
    IF lp <= Len(line) /\ line[lp] = "(" /\ \E rp \in (lp + 1)..Len(line) : line[rp] = ")"
    THEN method_groups(line, type, stat_virt, r, nm, lp,
                       CHOOSE rp \in (lp + 1)..Len(line) :
                           line[rp] = ")" /\ \A j \in (rp + 1)..Len(line) : line[j] # ")")
    ELSE None

\* (?P<name>\w+)\s* from the position nm that follows the return group
method_named(line, type, stat_virt, r, nm) ==
    IF Run(line, nm, WordChars) >= 1
    THEN method_args(line, type, stat_virt, r, nm,
                     nm + Run(line, nm, WordChars)
                        + Run(line, nm + Run(line, nm, WordChars), {" "}))
    ELSE None

\* (?P<return>[\w*:]+\s+\**) from position r, n1 characters of [\w*:] and n2
\* of whitespace
method_return(line, type, stat_virt, r, n1, n2) ==
    IF n1 >= 1 /\ n2 >= 1
    THEN method_named(line, type, stat_virt, r,
                      r + n1 + n2 + Run(line, r + n1 + n2, {"*"}))
    ELSE None

method_tail(line, type, stat_virt, r) ==
    method_return(line, type, stat_virt, r, Run(line, r, ReturnChars),
                  Run(line, r + Run(line, r, ReturnChars), {" "}))

\* (?P<stat_virt>static\s+|virtual\s+)? at position q: the qualifier kw is taken
\* when the rest of the pattern matches after it, and left to the return group
\* otherwise
method_qualified(line, type, q, kw) ==
    IF At(line, q, kw) /\ Run(line, q + Len(kw), {" "}) >= 1
    THEN method_tail(line, type,
                     Some(SubSeq(line, q, q + Len(kw) + Run(line, q + Len(kw), {" "}) - 1)),
                     q + Len(kw) + Run(line, q + Len(kw), {" "}))
    ELSE None

method_from(line, type, q) ==
    IF method_qualified(line, type, q, <<"s","t","a","t","i","c">>) # None
    THEN method_qualified(line, type, q, <<"s","t","a","t","i","c">>)
    ELSE IF method_qualified(line, type, q, <<"v","i","r","t","u","a","l">>) # None
    THEN method_qualified(line, type, q, <<"v","i","r","t","u","a","l">>)
    ELSE method_tail(line, type, None, q)

\* WREN_METHOD\((?P<type>[^)]*)\)\s+ from position t0, the type n characters long
method_typed(line, t0, n) ==
    IF t0 + n <= Len(line) /\ Run(line, t0 + n + 1, {" "}) >= 1
    THEN method_from(line, SubSeq(line, t0, t0 + n - 1),
                     t0 + n + 1 + Run(line, t0 + n + 1, {" "}))
    ELSE None

WREN_METHOD == <<"W","R","E","N","_","M","E","T","H","O","D","(">>

\* METHOD_REGEX.match(line) (lines 7-9): None, or the groups as a method line
METHOD_REGEX(line) ==
    IF At(line, 1 + Run(line, 1, {" "}), WREN_METHOD)
    THEN method_typed(line, 13 + Run(line, 1, {" "}),
                      RunUntil(line, 13 + Run(line, 1, {" "}), ")"))
    ELSE None

\* lines 138-154 for one line of text: what parse_lines sees of it
scan_matched(line) ==
    IF line = <<>> THEN OtherLine
    ELSE IF CLASS_REGEX(line) # None THEN ClassLine(CLASS_REGEX(line)[1].name)
    ELSE IF METHOD_REGEX(line) # None THEN METHOD_REGEX(line)[1]
    ELSE OtherLine

scan_line(line) == scan_matched(Strip(strip_comment(line)))

\* The headers of SpecScan, as text: the lines a file is made of are two class
\* boundaries, a plain method, an indented static getter with a qualifier after
\* the arguments and a comment that holds a declaration, a comment that holds
\* a class boundary, a field and a blank line.
MaxScanLines == 2
LineClassFoo ==
    <<"c","l","a","s","s"," ","O","b","j","F","o","o"," ","{">>
LineClassA ==
    <<"c","l","a","s","s"," ","O","b","j","A"," ",":"," ","p","u","b","l","i","c"," ","O","b",
      "j"," ","{">>
LineBar ==
    <<"W","R","E","N","_","M","E","T","H","O","D","(",")"," ","v","o","i","d"," ","B","a","r",
      "(",")",";">>
LineFoo ==
    <<" "," ","W","R","E","N","_","M","E","T","H","O","D","(","g","e","t","t","e","r",")"," ",
      "s","t","a","t","i","c"," ","i","n","t"," ","f","o","o","(",")"," ","c","o","n","s","t",
      ";"," ","/","/"," ","W","R","E","N","_","M","E","T","H","O","D","(",")"," ","v","o","i",
      "d"," ","B","a","r","(",")",";">>
LineComment ==
    <<"/","/"," ","c","l","a","s","s"," ","O","b","j","F","o","o"," ","{">>
LineField ==
    <<"i","n","t"," ","x",";">>
LineBlank ==
    <<" "," ">>
ScanLines == {LineClassFoo, LineClassA, LineBar, LineFoo, LineComment, LineField, LineBlank}
FirstFiles == UNION {[1..n -> ScanLines] : n \in 0..MaxScanLines}
SecondFiles == {<<>>, <<LineBar>>, <<LineClassA>>, <<LineClassA, LineBar>>, <<LineClassFoo, LineFoo>>}

\* lines 137-154 for the lines of a file
scan_file(fi) == [i \in DOMAIN fi |-> scan_line(fi[i])]

\* lines 209-212 as one step, on headers held as text
ScanText ==
    /\ pc = "parse"
    /\ Scanned(parse_all([f \in DOMAIN headers |-> scan_file(headers[f])], 1, <<>>))
    /\ UNCHANGED <<testvars, recv, ret, runs, pre_entry_gc, headers, output, ci, mi>>

InitScan ==
    /\ TestIdle
    /\ recv = None
    /\ ret = None
    /\ runs = <<>>
    /\ headers \in {<<f>> : f \in FirstFiles} \cup {<<f, g>> : f \in FirstFiles, g \in SecondFiles}
    /\ files = <<>>
    /\ pre_entry_gc = FALSE
    /\ classes = <<>>
    /\ output = <<>>
    /\ pc = "input"
    /\ ci = 0
    /\ mi = 0
    /\ exc = None

NextScan ==
    \/ Main({FALSE})
    \/ ScanText
    \/ WriteProlog
    \/ BeginClass
    \/ GenMethod
    \/ GenRegister
    \/ GenBind
    \/ GenDispatch

SpecScan == InitScan /\ [][NextScan]_vars

(***************************************************************************)
(* test.py: the parallel test runner                                       *)
(*                                                                         *)
(* main() walks the test directories and hands each file to run_parallel,  *)
(* which starts one worker thread per file; every worker runs run() around *)
(* its task.  A step of a thread is one statement that another thread can  *)
(* observe: an acquire or release of WORKING_LOCK or THREADS_SEM, a change *)
(* of threads_in_progress or of a counter, the end of a subprocess wait.   *)
(***************************************************************************)
Threads == 1..MaxTasks

\* a Thread object run_parallel has not created yet
NewThread == [pc |-> "new", raised |-> FALSE, held |-> FALSE]

\* the positions of run() and of the task it calls at which the thread is running test
\* logic or updating the shared counters and the list
Logic == {"task", "compiled", "result", "finally", "release"}

\* the positions at which the thread waits for the compiler or the test executable
Waits == {"compile_wait", "run_wait"}

\* the finally clauses around proc.communicate: WORKING_LOCK.acquire() is the next
\* statement of the thread whether communicate returned or raised
communicate_end_unprotected(pos, raised) ==
    IF raised
    THEN [pc |-> "finally", raised |-> TRUE, held |-> FALSE]
    ELSE [pc |-> IF pos = "compile_wait" THEN "compile_acquire" ELSE "run_acquire",
          raised |-> FALSE, held |-> FALSE]

communicate_end(pos, raised) ==
    [pc |-> IF pos = "compile_wait" THEN "compile_acquire" ELSE "run_acquire",
     raised |-> raised, held |-> FALSE]

\* THREADS_SEM.release() as a variant of run() makes it: after the try statement, so
\* that a task that raises leaves the slot taken
sem_release_after_try(sem, raised) ==
    IF raised \/ sem >= max_threads THEN sem ELSE sem + 1

\* THREADS_SEM.release() in the finally clause of run(): the value goes up by one; a
\* bounded semaphore raises ValueError instead of going over its initial value
sem_release(sem, raised) ==
    IF sem >= max_threads THEN sem ELSE sem + 1

\* list.remove(x): the list without the first occurrence of x
remove(list, x) ==
    IF \E i \in DOMAIN list : list[i] = x
    THEN LET i == CHOOSE j \in DOMAIN list : list[j] = x /\ \A k \in 1..(j - 1) : list[k] # x
         IN  SubSeq(list, 1, i - 1) \o SubSeq(list, i + 1, Len(list))
    ELSE list

testgenvars == <<recv, ret, genvars>>

\* run_parallel: assert THREADS_SEM.acquire()
SemAcquire ==
    /\ runner.pc = "walk"
    /\ runner.calls < MaxTasks
    /\ THREADS_SEM > 0
    /\ THREADS_SEM' = THREADS_SEM - 1
    /\ runner' = [runner EXCEPT !.pc = "append"]
    /\ UNCHANGED <<WORKING_LOCK, threads_in_progress, passed, expected_failed, failed,
                   worker, summary, testgenvars>>

\* run_parallel: the Thread object is created and appended to threads_in_progress
ThreadAppend ==
    /\ runner.pc = "append"
    /\ threads_in_progress' = Append(threads_in_progress, runner.calls + 1)
    /\ runner' = [runner EXCEPT !.pc = "start"]
    /\ UNCHANGED <<WORKING_LOCK, THREADS_SEM, passed, expected_failed, failed,
                   worker, summary, testgenvars>>

\* run_parallel: thread.start(); the new thread's first statement is the acquire in run()
ThreadStart ==
    /\ runner.pc = "start"
    /\ worker' = [worker EXCEPT ![runner.calls + 1].pc = "acquire"]
    /\ runner' = [runner EXCEPT !.pc = "walk", !.calls = runner.calls + 1]
    /\ UNCHANGED <<WORKING_LOCK, THREADS_SEM, threads_in_progress, passed, expected_failed,
                   failed, summary, testgenvars>>

\* main: the three walks have handed over every file
WalkEnd ==
    /\ runner.pc = "walk"
    /\ runner' = [runner EXCEPT !.pc = "wait"]
    /\ UNCHANGED <<WORKING_LOCK, THREADS_SEM, threads_in_progress, passed, expected_failed,
                   failed, worker, summary, testgenvars>>

\* main: with WORKING_LOCK, entered
WaitLock ==
    /\ runner.pc = "wait"
    /\ ~WORKING_LOCK
    /\ WORKING_LOCK' = TRUE
    /\ runner' = [runner EXCEPT !.pc = "check"]
    /\ UNCHANGED <<THREADS_SEM, threads_in_progress, passed, expected_failed, failed,
                   worker, summary, testgenvars>>

\* main: the body of the with statement, and its exit
WaitCheck ==
    /\ runner.pc = "check"
    /\ WORKING_LOCK' = FALSE
    /\ runner' = IF Len(threads_in_progress) = 0
                 THEN [runner EXCEPT !.pc = "summary"]
                 ELSE [runner EXCEPT !.pc = "join", !.waiting_on = threads_in_progress[1]]
    /\ UNCHANGED <<THREADS_SEM, threads_in_progress, passed, expected_failed, failed,
                   worker, summary, testgenvars>>

\* main: waiting_on.join() returns once that thread has ended
JoinThread ==
    /\ runner.pc = "join"
    /\ worker[runner.waiting_on].pc = "done"
    /\ runner' = [runner EXCEPT !.pc = "wait"]
    /\ UNCHANGED <<WORKING_LOCK, THREADS_SEM, threads_in_progress, passed, expected_failed,
                   failed, worker, summary, testgenvars>>

\* main: the final summary is written from the counters
Summary ==
    /\ runner.pc = "summary"
    /\ summary' = Some([passed |-> passed, expected_failed |-> expected_failed,
                        failed |-> failed])
    /\ runner' = [runner EXCEPT !.pc = "end"]
    /\ UNCHANGED <<WORKING_LOCK, THREADS_SEM, threads_in_progress, passed, expected_failed,
                   failed, worker, testgenvars>>

\* WORKING_LOCK.acquire() by worker w, in run() or in a finally clause around communicate;
\* an exception that left communicate goes on to the finally clause of run()
Acquire(w) ==
    /\ worker[w].pc \in {"acquire", "compile_acquire", "run_acquire"}
    /\ ~WORKING_LOCK
    /\ WORKING_LOCK' = TRUE
    /\ worker' = [worker EXCEPT ![w] =
           [pc |-> IF worker[w].raised THEN "finally"
                   ELSE IF worker[w].pc = "acquire" THEN "task"
                   ELSE IF worker[w].pc = "compile_acquire" THEN "compiled"
                   ELSE "result",
            raised |-> worker[w].raised, held |-> TRUE]]
    /\ UNCHANGED <<THREADS_SEM, threads_in_progress, passed, expected_failed, failed,
                   runner, summary, testgenvars>>

\* the task returns without running its file (not a test, or skipped), or raises
TaskEnds(w) ==
    /\ worker[w].pc \in {"task", "compiled"}
    /\ \E raised \in BOOLEAN :
           worker' = [worker EXCEPT ![w].pc = "finally", ![w].raised = raised]
    /\ UNCHANGED <<WORKING_LOCK, THREADS_SEM, threads_in_progress, passed, expected_failed,
                   failed, runner, summary, testgenvars>>

\* Test.compile and Test._run_impl: the subprocess is started, WORKING_LOCK.release(),
\* and the thread waits in proc.communicate
StartWait(w) ==
    /\ worker[w].pc \in {"task", "compiled"}
    /\ WORKING_LOCK' = FALSE
    /\ worker' = [worker EXCEPT ![w].pc = IF worker[w].pc = "task" THEN "compile_wait"
                                          ELSE "run_wait",
                                ![w].held = FALSE]
    /\ UNCHANGED <<THREADS_SEM, threads_in_progress, passed, expected_failed, failed,
                   runner, summary, testgenvars>>

\* proc.communicate returns or raises
EndWait(w) ==
    /\ worker[w].pc \in Waits
    /\ \E raised \in BOOLEAN : worker' = [worker EXCEPT ![w] = communicate_end(worker[w].pc, raised)]
    /\ UNCHANGED <<WORKING_LOCK, THREADS_SEM, threads_in_progress, passed, expected_failed,
                   failed, runner, summary, testgenvars>>

\* run_script: the result of the test is counted; a compilation that failed is counted
\* the same way
Result(w) ==
    /\ worker[w].pc \in {"compiled", "result"}
    /\ \/ passed' = passed + 1 /\ UNCHANGED <<expected_failed, failed>>
       \/ expected_failed' = expected_failed + 1 /\ UNCHANGED <<passed, failed>>
       \/ failed' = failed + 1 /\ UNCHANGED <<passed, expected_failed>>
    /\ worker' = [worker EXCEPT ![w].pc = "finally"]
    /\ UNCHANGED <<WORKING_LOCK, THREADS_SEM, threads_in_progress, runner, summary,
                   testgenvars>>

\* run(): threads_in_progress.remove(thread)
Finally(w) ==
    /\ worker[w].pc = "finally"
    /\ threads_in_progress' = remove(threads_in_progress, w)
    /\ worker' = [worker EXCEPT ![w].pc = "release"]
    /\ UNCHANGED <<WORKING_LOCK, THREADS_SEM, passed, expected_failed, failed, runner,
                   summary, testgenvars>>

\* run(): WORKING_LOCK.release(); releasing an unlocked lock raises RuntimeError, which
\* ends the thread
Release(w) ==
    /\ worker[w].pc = "release"
    /\ WORKING_LOCK' = FALSE
    /\ worker' = [worker EXCEPT ![w] =
           IF WORKING_LOCK
           THEN [pc |-> "sem_release", raised |-> worker[w].raised, held |-> FALSE]
           ELSE [pc |-> "done", raised |-> TRUE, held |-> FALSE]]
    /\ UNCHANGED <<THREADS_SEM, threads_in_progress, passed, expected_failed, failed,
                   runner, summary, testgenvars>>

\* run(): THREADS_SEM.release(), the last statement of the thread
SemRelease(w) ==
    /\ worker[w].pc = "sem_release"
    /\ THREADS_SEM' = sem_release(THREADS_SEM, worker[w].raised)
    /\ worker' = [worker EXCEPT ![w].pc = "done"]
    /\ UNCHANGED <<WORKING_LOCK, threads_in_progress, passed, expected_failed, failed,
                   runner, summary, testgenvars>>

InitTest ==
    /\ recv = None
    /\ ret = None
    /\ GenerateIdle
    /\ WORKING_LOCK = FALSE
    /\ THREADS_SEM = max_threads
    /\ threads_in_progress = <<>>
    /\ passed = 0
    /\ expected_failed = 0
    /\ failed = 0
    /\ worker = [t \in Threads |-> NewThread]
    /\ runner = [pc |-> "walk", calls |-> 0, waiting_on |-> 0]
    /\ summary = None

NextTest ==
    \/ SemAcquire
    \/ ThreadAppend
    \/ ThreadStart
    \/ WalkEnd
    \/ WaitLock
    \/ WaitCheck
    \/ JoinThread
    \/ Summary
    \/ \E w \in Threads :
        \/ Acquire(w)
        \/ TaskEnds(w)
        \/ StartWait(w)
        \/ EndWait(w)
        \/ Result(w)
        \/ Finally(w)
        \/ Release(w)
        \/ SemRelease(w)

SpecTest == InitTest /\ [][NextTest]_vars

(***************************************************************************)
(* Properties of the binding model                                         *)
(***************************************************************************)
WasCalled(r) == r.st # "none"
Reserved(name) == name = OPERATOR_SUBSCRIPT \/ name = OPERATOR_SUBSCRIPT_SET
OperatorPrefixed(name) == StartsWith(name, OPERATOR_PREFIX)
Suffix(name) == RemovePrefix(name, OPERATOR_PREFIX)
KnownOperator(name) == OperatorPrefixed(name) /\ HasKey(OperatorItems, Suffix(name))
UnknownOperator(name) ==
    OperatorPrefixed(name) /\ ~Reserved(name) /\ ~HasKey(OperatorItems, Suffix(name))
Symbol(name) == Lookup(OperatorItems, Suffix(name))
CallPart(count) == <<"(">> \o Placeholders(count) \o <<")">>
\* s without the characters of cs
Without(s, cs) == SelectSeq(s, LAMBDA c : c \notin cs)

\* C1: arity() returns the number of declared arguments, except for a non-static
\* method of ObjNumClass, where it returns that number minus one; static methods
\* of ObjNumClass are not reduced; a non-static ObjNumClass method with zero
\* arguments makes arity() raise instead of returning a value.
C1_Arity ==
    \A i \in DOMAIN recv :
        WasCalled(ret[i].arity) =>
            IF recv[i].parent_class = NUMBER_CLASS /\ ~recv[i].static
            THEN IF Len(recv[i].args) = 0
                 THEN IsRaise(ret[i].arity)
                 ELSE IsOk(ret[i].arity) /\ ret[i].arity.val = Len(recv[i].args) - 1
            ELSE IsOk(ret[i].arity) /\ ret[i].arity.val = Len(recv[i].args)

\* arity() has returned 1 for a non-static ObjNumClass method with two arguments
C1_Reduced ==
    \E i \in DOMAIN recv :
        /\ recv[i].parent_class = NUMBER_CLASS /\ ~recv[i].static
        /\ Len(recv[i].args) = 2
        /\ IsOk(ret[i].arity) /\ ret[i].arity.val = 1

\* C2, as stated: for every method named Operator + a key of the operator table,
\* signature() is the table's symbol followed by "(", arity() placeholders and ")".
C2_AsStated ==
    \A i \in DOMAIN recv :
        (IsOk(ret[i].arity) /\ WasCalled(ret[i].signature) /\ KnownOperator(recv[i].name)) =>
            /\ IsOk(ret[i].signature)
            /\ ret[i].signature.val = Symbol(recv[i].name) \o CallPart(ret[i].arity.val)

\* C2: for every method named Operator + a key of the operator table on which
\* arity() returns, signature() is the table's symbol followed by "(", arity()
\* comma-separated placeholders and ")" when the kind is not getter, and the bare
\* symbol when the kind is getter; when arity() raises, signature() raises the same.
C2_OperatorSignature ==
    \A i \in DOMAIN recv :
        (WasCalled(ret[i].arity) /\ WasCalled(ret[i].signature) /\ KnownOperator(recv[i].name)) =>
            IF IsRaise(ret[i].arity) THEN ret[i].signature = ret[i].arity
            ELSE /\ IsOk(ret[i].signature)
                 /\ ret[i].signature.val =
                        IF recv[i].special_type = KindGetter
                        THEN Symbol(recv[i].name)
                        ELSE Symbol(recv[i].name) \o CallPart(ret[i].arity.val)

\* signature() has returned "-" for a getter named OperatorMinus
C2_GetterOperator ==
    \E i \in DOMAIN recv :
        /\ recv[i].name = OPERATOR_PREFIX \o <<"M","i","n","u","s">>
        /\ recv[i].special_type = KindGetter
        /\ IsOk(ret[i].arity)
        /\ IsOk(ret[i].signature) /\ ret[i].signature.val = <<"-">>

\* C4: for a method named OperatorSubscript signature() is "[" arity() placeholders
\* "]", for OperatorSubscriptSet it is "[" arity() - 1 placeholders "]=(_)", for
\* every kind, getter included; these two names never raise the unknown-operator
\* error (the only exception signature() raises for them is the one of arity()).
C4_SubscriptSignature ==
    \A i \in DOMAIN recv :
        (WasCalled(ret[i].arity) /\ WasCalled(ret[i].signature) /\ Reserved(recv[i].name)) =>
            IF IsRaise(ret[i].arity) THEN ret[i].signature = ret[i].arity
            ELSE /\ IsOk(ret[i].signature)
                 /\ ret[i].signature.val =
                        IF recv[i].name = OPERATOR_SUBSCRIPT
                        THEN <<"[">> \o Placeholders(ret[i].arity.val) \o <<"]">>
                        ELSE <<"[">> \o Placeholders(ret[i].arity.val - 1)
                                 \o <<"]", "=", "(", "_", ")">>

\* signature() has returned "[_]=(_)" for a getter named OperatorSubscriptSet
C4_GetterSubscriptSet ==
    \E i \in DOMAIN recv :
        /\ recv[i].name = OPERATOR_SUBSCRIPT_SET
        /\ recv[i].special_type = KindGetter
        /\ IsOk(ret[i].arity) /\ ret[i].arity.val = 2
        /\ IsOk(ret[i].signature)
        /\ ret[i].signature.val = <<"[", "_", "]", "=", "(", "_", ")">>

\* sig has no parentheses and no "_" other than the ones of the method's name
Bare(sig, name) ==
    /\ Count(sig, "(") = 0
    /\ Count(sig, ")") = 0
    /\ Count(sig, "_") = Count(name, "_")

\* C5, as stated: for every method of kind getter, whatever its name, signature()
\* contains no parentheses and no placeholders.
C5_AsStated ==
    \A i \in DOMAIN recv :
        (IsOk(ret[i].signature) /\ recv[i].special_type = KindGetter) =>
            Bare(ret[i].signature.val, recv[i].name)

\* C5: for every method of kind getter whose name is not a reserved indexing name,
\* whatever its number of declared arguments, the signature signature() returns
\* contains no parentheses and no placeholders.
C5_GetterSignature ==
    \A i \in DOMAIN recv :
        (IsOk(ret[i].signature) /\ recv[i].special_type = KindGetter
            /\ ~Reserved(recv[i].name)) =>
            Bare(ret[i].signature.val, recv[i].name)

\* signature() has returned "bar" for a getter named Bar with two arguments
C5_GetterWithArguments ==
    \E i \in DOMAIN recv :
        /\ recv[i].name = Bar
        /\ recv[i].special_type = KindGetter
        /\ Len(recv[i].args) = 2
        /\ IsOk(ret[i].signature) /\ ret[i].signature.val = <<"b","a","r">>

\* C6: for every method whose name is neither a reserved indexing name nor
\* operator-prefixed and whose kind is not getter, on which arity() returns,
\* signature() is the name with only its first character lower-cased, followed by
\* "(", arity() comma-separated placeholders and ")".
C6_PlainSignature ==
    \A i \in DOMAIN recv :
        (IsOk(ret[i].arity) /\ WasCalled(ret[i].signature) /\ ~Reserved(recv[i].name)
            /\ ~OperatorPrefixed(recv[i].name) /\ recv[i].special_type # KindGetter) =>
            /\ IsOk(ret[i].signature)
            /\ ret[i].signature.val =
                   <<CharLower(recv[i].name[1])>>
                   \o SubSeq(recv[i].name, 2, Len(recv[i].name))
                   \o CallPart(ret[i].arity.val)

\* signature() has returned "b_C(_,_)" for a method named B_C of arity 2
C6_LowerFirstOnly ==
    \E i \in DOMAIN recv :
        /\ recv[i].name = B_C
        /\ IsOk(ret[i].arity) /\ ret[i].arity.val = 2
        /\ IsOk(ret[i].signature)
        /\ ret[i].signature.val = <<"b", "_", "C", "(", "_", ",", "_", ")">>

\* C7, as stated: two methods whose (class name, method name, arity) triples
\* differ get different trampoline symbols, and none of the forwarder symbols
\* <symbol>_va0.._va16 of one coincides with a forwarder or the trampoline symbol
\* of the other.
C7_SymbolsInjective ==
    (/\ Len(recv) = 2
     /\ IsOk(ret[1].arity) /\ IsOk(ret[2].arity)
     /\ IsOk(ret[1].method_name) /\ IsOk(ret[2].method_name)
     /\ <<recv[1].parent_class, recv[1].name, ret[1].arity.val>>
            # <<recv[2].parent_class, recv[2].name, ret[2].arity.val>>) =>
        /\ ret[1].method_name.val # ret[2].method_name.val
        /\ \A n1 \in 0..16 :
               /\ va_name(ret[1].method_name.val, n1) # ret[2].method_name.val
               /\ \A n2 \in 0..16 :
                      va_name(ret[1].method_name.val, n1) # va_name(ret[2].method_name.val, n2)

(***************************************************************************)
(* Properties of the emitter                                               *)
(***************************************************************************)
\* the writes of the registration function written last
LastRegistration ==
    SubSeq(output,
           CHOOSE i \in DOMAIN output :
               /\ output[i].kind = "register_def"
               /\ \A p \in (i + 1)..Len(output) : output[p].kind # "register_def",
           Len(output))

\* the number of namespace guards in lines, and the position of the j-th one
Guards(lines) == Cardinality({i \in DOMAIN lines : lines[i].kind = "if"})
GuardAt(lines, j) ==
    CHOOSE i \in DOMAIN lines :
        /\ lines[i].kind = "if"
        /\ Cardinality({p \in 1..i : lines[p].kind = "if"}) = j

\* the AddFunction calls between the j-th guard and the next one
RegisteredBy(lines, j) ==
    SelectSeq(SubSeq(lines, GuardAt(lines, j),
                     IF j < Guards(lines) THEN GuardAt(lines, j + 1) ELSE Len(lines)),
              LAMBDA l : l.kind = "add")

\* s up to and including its first "("
OpenPart(s) ==
    SubSeq(s, 1, CHOOSE i \in DOMAIN s : s[i] = "(" /\ \A p \in 1..(i - 1) : s[p] # "(")

\* the registration function of a class has just been written
Registered == pc = "class" /\ ci > 1

\* C3, as stated: generate reaches a method whose name starts with Operator, is
\* not a reserved indexing name and has no key of the operator table after the
\* prefix; then the run ends with an exception that names the owning class and
\* the method, and nothing is written for the method.
C3_UnknownOperatorError ==
    [][(/\ pc = "method"
        /\ mi <= Len(classes[ci].methods)
        /\ UnknownOperator(classes[ci].methods[mi].name)) =>
           /\ pc' = "raised"
           /\ output' = output
           /\ exc' # None
           /\ exc'[1].names = <<classes[ci].name, classes[ci].methods[mi].name>>]_vars

\* adds registers the 17 forwarders of symbol, the n-th under a signature with
\* count + n placeholders
Expansions(adds, symbol, count) ==
    /\ Len(adds) = 17
    /\ \A n \in 0..16 :
           /\ adds[n + 1].symbol = symbol \o <<"_", "v", "a">> \o IntStr(n)
           /\ Count(adds[n + 1].signature, "_") = count + n
    /\ \A n1, n2 \in 0..16 : n1 # n2 => adds[n1 + 1].signature # adds[n2 + 1].signature

\* C8, as stated: a variadic method with k arguments has exactly 17
\* registrations, the n-th of symbol <method symbol>_va<n> under a signature
\* with k + n placeholders, the 17 signatures pairwise distinct.
C8_AsStated ==
    Registered =>
        \A j \in DOMAIN classes[ci - 1].methods :
            classes[ci - 1].methods[j].special_type = KindVariadic =>
                Expansions(RegisteredBy(LastRegistration, j),
                           method_name(classes[ci - 1].methods[j]).val,
                           Len(classes[ci - 1].methods[j].args))

\* the n-th signature of adds is sig with its last character replaced by n
\* further placeholders and ")"; for a name that is not a reserved indexing name
\* it is the name part of sig, count + n comma-separated placeholders and ")"
Extended(adds, name, sig, count) ==
    \A n \in 0..16 :
        /\ Without(adds[n + 1].signature, {"_", ","})
               = Without(SubSeq(sig, 1, Len(sig) - 1), {"_", ","}) \o <<")">>
        /\ ~Reserved(name) =>
               adds[n + 1].signature = OpenPart(sig) \o Placeholders(count + n) \o <<")">>

\* C8: a variadic method has exactly 17 registrations in the registration
\* function of its class, the n-th of symbol <method symbol>_va<n> under
\* signature() with n placeholders more, the 17 signatures pairwise distinct and
\* different in placeholder count only; the n-th has arity() + n comma-separated
\* placeholders when the name is not a reserved indexing name.
C8_VariadicRegistrations ==
    Registered =>
        \A j \in DOMAIN classes[ci - 1].methods :
            classes[ci - 1].methods[j].special_type = KindVariadic =>
                /\ Expansions(RegisteredBy(LastRegistration, j),
                              method_name(classes[ci - 1].methods[j]).val,
                              Count(signature(classes[ci - 1].methods[j]).val, "_"))
                /\ Extended(RegisteredBy(LastRegistration, j),
                            classes[ci - 1].methods[j].name,
                            signature(classes[ci - 1].methods[j]).val,
                            arity(classes[ci - 1].methods[j]).val)

\* a non-static variadic method of ObjNumClass with one argument has been
\* registered, its first expansion under "bar()"
C8_NumberClassVariadic ==
    /\ Registered
    /\ classes[ci - 1].name = NUMBER_CLASS
    /\ \E j \in DOMAIN classes[ci - 1].methods :
           /\ classes[ci - 1].methods[j].special_type = KindVariadic
           /\ ~classes[ci - 1].methods[j].static
           /\ Len(classes[ci - 1].methods[j].args) = 1
           /\ RegisteredBy(LastRegistration, j)[1].signature = <<"b", "a", "r", "(", ")">>

\* wrapper w, the one numbered n, takes a receiver and n values and calls
\* symbol with the receiver and the list of exactly those values, in order
Forwards(w, n, symbol, declared) ==
    /\ w.symbol = symbol \o <<"_", "v", "a">> \o IntStr(n)
    /\ Len(declared) = n + 1
    /\ \A k \in DOMAIN declared : declared[k].type = "Value"
    /\ Cardinality({declared[k].name : k \in DOMAIN declared}) = n + 1
    /\ w.callee = symbol
    /\ w.actuals = << [name |-> declared[1].name],
                      [list |-> [k \in 1..n |-> declared[k + 1].name]] >>

\* new, the writes made for method m, holds its trampoline and then, when m is
\* variadic, the 17 wrappers and nothing else
WrappersOf(m, new, wrappers) ==
    IF m.special_type # KindVariadic THEN wrappers = <<>>
    ELSE /\ Len(wrappers) = 17
         /\ new[1].kind = "def"
         /\ new[Len(new) - 17].kind = "end"
         /\ SubSeq(new, Len(new) - 16, Len(new)) = wrappers
         /\ \A n \in 0..16 :
                Forwards(wrappers[n + 1], n, new[1].symbol,
                         SelectSeq(wrappers[n + 1].params, LAMBDA q : q.type # ","))

\* C9: the writes made for a variadic method end with exactly 17 forwarding
\* wrappers, numbered 0 to 16, directly after its trampoline, and the writes made
\* for a non-variadic method hold none; wrapper n takes a receiver and exactly n
\* values and calls the trampoline with the receiver and those n values, in
\* order, packed as the trailing collection.
C9_ForwardingWrappers ==
    [][(pc = "method" /\ mi <= Len(classes[ci].methods) /\ pc' = "method") =>
           WrappersOf(classes[ci].methods[mi],
                      SubSeq(output', Len(output) + 1, Len(output')),
                      SelectSeq(SubSeq(output', Len(output) + 1, Len(output')),
                                LAMBDA l : l.kind = "va_def"))]_vars

\* a wrapper that takes sixteen values has been written
C9_WrapperSixteen ==
    \E i \in DOMAIN output :
        /\ output[i].kind = "va_def"
        /\ Len(output[i].actuals[2].list) = 16
        /\ Len(output[i].params) = 33

\* the j-th guard of reg and the registrations under it are those of method m
RegistersMethod(m, guard, adds) ==
    /\ guard.cond = (IF m.static THEN "isMeta" ELSE "!isMeta")
    /\ Len(adds) >= 1
    /\ m.special_type # KindVariadic =>
           adds = <<[kind |-> "add", signature |-> signature(m).val,
                     symbol |-> method_name(m).val]>>

\* C10: the registration function of a class has one guarded registration per
\* method of the class, in declaration order; the guard of a static method is
\* isMeta and the guard of an instance method is !isMeta; a non-variadic method
\* is registered exactly once, under signature() with symbol method_name().
C10_Registration ==
    Registered =>
        /\ Guards(LastRegistration) = Len(classes[ci - 1].methods)
        /\ Len(SelectSeq(LastRegistration, LAMBDA l : l.kind = "add")) >= Guards(LastRegistration)
        /\ \A j \in DOMAIN classes[ci - 1].methods :
               RegistersMethod(classes[ci - 1].methods[j],
                               LastRegistration[GuardAt(LastRegistration, j)],
                               RegisteredBy(LastRegistration, j))

\* a class with a static non-variadic method followed by an instance method has
\* been registered
C10_StaticThenInstance ==
    /\ Registered
    /\ Len(classes[ci - 1].methods) = 2
    /\ classes[ci - 1].methods[1].static
    /\ classes[ci - 1].methods[1].special_type # KindVariadic
    /\ ~classes[ci - 1].methods[2].static
    /\ LastRegistration[GuardAt(LastRegistration, 1)].cond = "isMeta"
    /\ LastRegistration[GuardAt(LastRegistration, 2)].cond = "!isMeta"

(***************************************************************************)
(* Properties of the trampolines                                           *)
(***************************************************************************)
\* generate writes the trampoline of the method at (ci, mi) without raising
WritesMethod == pc = "method" /\ mi <= Len(classes[ci].methods) /\ pc' = "method"
\* what that step writes
MethodWrites == SubSeq(output', Len(output) + 1, Len(output'))

\* the parameters after the receiver: one boxed value per argument, in
\* declaration order, then the trailing collection of a variadic method
ArgumentParams(m) ==
    [i \in DOMAIN m.args |->
        [type |-> "Value", name |-> <<"a","r","g">> \o IntStr(m.args[i].pos)]]
    \o (IF m.special_type = KindVariadic
        THEN <<[type |-> "const std::initializer_list<Value> &",
                name |-> <<"v","a","r","_","a","r","g","s">>]>>
        ELSE <<>>)

ReceiverParam == <<[type |-> "Value", name |-> <<"r","e","c","e","i","v","e","r">>]>>

\* C11, as stated: the parameter list of a trampoline starts with the receiver
\* parameter unless the method is static, or its class is ObjNull, or its class
\* is ObjNumClass and the method is non-static; then come one boxed value per
\* argument and, for a variadic method, the trailing collection.
C11_AsStated ==
    [][WritesMethod =>
           Declared(MethodWrites[1].params)
               = (IF \/ classes[ci].methods[mi].static
                     \/ classes[ci].name = NULL_CLASS
                     \/ (classes[ci].name = NUMBER_CLASS /\ ~classes[ci].methods[mi].static)
                  THEN <<>> ELSE ReceiverParam)
                 \o ArgumentParams(classes[ci].methods[mi])]_vars

\* C11: the parameter list of a trampoline starts with the receiver parameter
\* unless its class is ObjNumClass and the method is non-static (static methods
\* and methods of ObjNull do get it); then come one boxed value per argument, in
\* declaration order, and for a variadic method the trailing collection, the
\* parameters separated by commas.
C11_TrampolineParams ==
    [][WritesMethod =>
           /\ MethodWrites[1].kind = "def"
           /\ MethodWrites[1].params
                  = Join((IF classes[ci].name = NUMBER_CLASS /\ ~classes[ci].methods[mi].static
                          THEN <<>> ELSE ReceiverParam)
                         \o ArgumentParams(classes[ci].methods[mi]), Comma)]_vars

\* the trampoline of a static variadic method of ObjNull has been written with
\* a receiver parameter, a boxed value and the trailing collection
C11_StaticNullReceiver ==
    /\ pc = "done"
    /\ classes[1].name = NULL_CLASS
    /\ classes[1].methods[1].static
    /\ classes[1].methods[1].special_type = KindVariadic
    /\ Len(classes[1].methods[1].args) = 1
    /\ \E i \in DOMAIN output :
           /\ output[i].kind = "def"
           /\ Len(output[i].params) = 5
           /\ output[i].params[1].name = <<"r","e","c","e","i","v","e","r">>

(***************************************************************************)
(* Properties of failed runs                                               *)
(***************************************************************************)
\* C12, as stated: a generation-time error ends the run, and the failed run
\* leaves no partially generated artifact in the output: no trampoline and no
\* registration function has been written to it.
C12_NoPartialArtifact ==
    pc = "raised" =>
        /\ exc # None
        /\ \A i \in DOMAIN output : output[i].kind \notin {"def", "register_def"}

\* text occurs in one of the values the message of exception e is formatted from
Mentions(e, text) ==
    \E n \in DOMAIN e.names :
        \E k \in 1..(Len(e.names[n]) - Len(text) + 1) :
            SubSeq(e.names[n], k, k + Len(text) - 1) = text

\* C13, as stated: the error that ends a run reports the owning class name and
\* the method name of the method generate was at.
C13_ErrorsNameClassAndMethod ==
    pc = "raised" =>
        /\ Mentions(exc[1], classes[ci].name)
        /\ Mentions(exc[1], classes[ci].methods[mi].name)

(***************************************************************************)
(* Properties of repeated runs                                             *)
(***************************************************************************)
Ended == pc \in {"done", "raised"}

SplitsAt(s, q, p, e) ==
    /\ IsSpace(s[q])
    /\ \A i \in (q + 1)..(p - 1) : s[i] \in {"*", "&"}
    /\ \A i \in p..e : IsWord(s[i])
    /\ \A i \in (e + 1)..Len(s) : IsSpace(s[i])
Splits(s) ==
    \E q \in 2..Len(s) : \E p \in (q + 1)..Len(s) : \E e \in p..Len(s) : SplitsAt(s, q, p, e)
Unannotated(entry) ==
    IF ARG_INFO_REGEX(entry) = None THEN entry
    ELSE Strip(SubSeq(entry, Len(ARG_INFO_REGEX(entry)[1].whole) + 1, Len(entry)))
EntriesSplit(text) ==
    text = <<>> \/ \A i \in DOMAIN Split(text, ",") : Splits(Unannotated(Split(text, ",")[i]))
Acceptable(line) ==
    /\ line.type \in {<<>>, <<"g","e","t","t","e","r">>, <<"v","a","r","i","a","d","i","c">>}
    /\ EntriesSplit(line.args)
MethodLines(h) == {i \in DOMAIN h : h[i].form = "method"}
Scanning == pc \in {"prolog", "raised"} /\ headers # <<>>
C15_AcceptedOnlyIfWellFormed ==
    Scanning =>
        /\ (\E i \in MethodLines(headers[1]) : ~Acceptable(headers[1][i]))
               => pc = "raised" /\ exc # None /\ classes = <<>> /\ files = <<>>
        /\ pc = "prolog"
               => /\ \A i \in MethodLines(headers[1]) : Acceptable(headers[1][i])
                  /\ Len(Flat([c \in DOMAIN classes |-> classes[c].methods]))
                         = Cardinality(MethodLines(headers[1]))

\* a declaration of an accepted kind, after a class line, whose only entry is a
\* bare name is refused with the argument error
C15_BareNameRefused ==
    /\ pc = "raised"
    /\ Len(headers) = 1
    /\ Len(headers[1]) = 2
    /\ headers[1][1] = ClassLine(ObjFoo)
    /\ headers[1][2] = MethodLine(<<>>, None, TypeVoid, Bar, ArgsBare)
    /\ exc[1].kind = "Could not match arguments"
    /\ exc[1].names = <<ObjFoo, Bar, ArgsBare>>


\* C16: ObjClass::Bind has one entry per parsed class record, in aggregation
\* order; called with the name of a parsed class it calls that class's
\* registration function with its cls and isMeta parameters and returns, and
\* called with a name that is no parsed class it reaches the fatal abort
\* without a call.  RunBind executes the written body for a type name.
BindStart(out) == CHOOSE b \in DOMAIN out : out[b].kind = "bind_def"
EndifAfter(body, i) ==
    CHOOSE e \in i..Len(body) :
        body[e].kind = "bind_endif" /\ \A x \in i..(e - 1) : body[x].kind # "bind_endif"
RECURSIVE RunBind(_, _, _, _)
RunBind(body, i, type, calls) ==
    IF i > Len(body) \/ body[i].kind = "end" THEN [st |-> "end", calls |-> calls]
    ELSE IF body[i].kind = "bind_if"
    THEN IF body[i].type = type THEN RunBind(body, i + 1, type, calls)
         ELSE RunBind(body, EndifAfter(body, i) + 1, type, calls)
    ELSE IF body[i].kind = "bind_register"
    THEN RunBind(body, i + 1, type, Append(calls, [fn |-> body[i].cls, args |-> body[i].args]))
    ELSE IF body[i].kind = "bind_return" THEN [st |-> "return", calls |-> calls]
    ELSE IF body[i].kind = "abort" THEN [st |-> "abort", calls |-> calls]
    ELSE RunBind(body, i + 1, type, calls)
BindProbes == {ObjFoo, NUMBER_CLASS, NULL_CLASS}
BindEntries(body) == SelectSeq(body, LAMBDA l : l.kind = "bind_if")
BindsRight(body, cs) ==
    /\ body[1].params = <<"cls", "type", "isMeta">>
    /\ BindEntries(body) = [j \in DOMAIN cs |-> [kind |-> "bind_if", type |-> cs[j].name]]
    /\ \A t \in BindProbes :
         RunBind(body, 2, t, <<>>) =
             IF \E j \in DOMAIN cs : cs[j].name = t
             THEN [st |-> "return", calls |-> <<[fn |-> t, args |-> <<"cls", "isMeta">>]>>]
             ELSE [st |-> "abort", calls |-> <<>>]
BindWritten == pc \in {"dispatch", "done"}
C16_BindDispatch ==
    BindWritten => BindsRight(SubSeq(output, BindStart(output), Len(output)), classes)

\* Bind is written for two classes of two files, the number class first
C16_TwoClassesBound ==
    /\ pc = "done"
    /\ Len(files) = 2
    /\ [j \in DOMAIN classes |-> classes[j].name] = <<NUMBER_CLASS, ObjFoo>>


\* C17: exactly the 17 forwarders fnDispatch0..fnDispatch16 are written;
\* fnDispatch<i> takes exactly i boxed values after fn and upvalues, and calls
\* the function pointer with (upvalues, v0..v(i-1)) when upvalues is present
\* and with (v0..v(i-1)) when it is absent.  FunctionDispatch, for an arity i
\* in 0..16, calls fnDispatch<i> with a[0]..a[i-1] in order, and reaches the
\* fatal abort for every other arity.  RunForwarder and RunEntry execute the
\* written bodies.
Values(i) == [n \in 1..i |-> <<"v">> \o IntStr(n - 1)]
ForwarderDefs(out) == SelectSeq(out, LAMBDA l : l.kind = "fn_def")
ForwarderStart(out, i) == CHOOSE b \in DOMAIN out : out[b].kind = "fn_def" /\ out[b].i = i
RECURSIVE RunForwarder(_, _, _)
RunForwarder(out, j, present) ==
    IF j > Len(out) \/ out[j].kind = "end" THEN [st |-> "end"]
    ELSE IF out[j].kind = "if_upvalues"
    THEN IF present THEN RunForwarder(out, j + 1, present)
         ELSE RunForwarder(out, (CHOOSE e \in j..Len(out) :
                                    out[e].kind = "endif"
                                    /\ \A x \in j..(e - 1) : out[x].kind # "endif") + 1, present)
    ELSE IF out[j].kind = "fn_call"
    THEN [st |-> "return", as |-> out[j].as, args |-> out[j].args]
    ELSE RunForwarder(out, j + 1, present)
EntryStart(out) == CHOOSE b \in DOMAIN out : out[b].kind = "entry_def"
RECURSIVE RunEntry(_, _, _)
RunEntry(out, j, reported) ==
    IF j > Len(out) \/ out[j].kind = "end" THEN [st |-> "end"]
    ELSE IF out[j].kind = "if_arity"
    THEN IF out[j].arity = reported THEN RunEntry(out, j + 1, reported)
         ELSE RunEntry(out, j + 2, reported)
    ELSE IF out[j].kind = "entry_call"
    THEN [st |-> "return", i |-> out[j].i, args |-> out[j].args]
    ELSE IF out[j].kind = "abort" THEN [st |-> "abort"]
    ELSE RunEntry(out, j + 1, reported)
Arities == (0 - 1)..18
Dispatches(out) ==
    /\ Len(ForwarderDefs(out)) = 17
    /\ \A i \in 0..16 :
         /\ ForwarderDefs(out)[i + 1].i = i
         /\ ForwarderDefs(out)[i + 1].params = <<"fn", "upvalues">>
         /\ ForwarderDefs(out)[i + 1].values = Values(i)
         /\ Len(ForwarderDefs(out)[i + 1].values) = i
         /\ RunForwarder(out, ForwarderStart(out, i) + 1, TRUE)
                = [st |-> "return", as |-> "withUpvalue",
                   args |-> <<<<"u","p","v","a","l","u","e","s">>>> \o Values(i)]
         /\ RunForwarder(out, ForwarderStart(out, i) + 1, FALSE)
                = [st |-> "return", as |-> "withoutUpvalue", args |-> Values(i)]
    /\ \A a \in Arities :
         RunEntry(out, EntryStart(out) + 1, a) =
             IF a \in 0..16 THEN [st |-> "return", i |-> a, args |-> [n \in 1..a |-> n - 1]]
             ELSE [st |-> "abort"]
C17_Forwarders == pc = "done" => Dispatches(output)

\* the forwarders are written in a run over a class with a variadic method
C17_DispatchWritten ==
    /\ pc = "done"
    /\ \E j \in DOMAIN classes : \E k \in DOMAIN classes[j].methods :
           classes[j].methods[k].special_type = KindVariadic
    /\ output[Len(output) - 1].kind = "abort"


(***************************************************************************)
(* Properties of the body of a trampoline                                  *)
(***************************************************************************)
\* the lines of one kind among the writes of a step
WritesOf(kind) == SelectSeq(MethodWrites, LAMBDA l : l.kind = kind)

\* the actual arguments of the call: the typed arguments in declaration order,
\* then the unchecked trailing collection of a variadic method
Actuals(m) ==
    [i \in DOMAIN m.args |-> <<"t","y","p","e","d","A","r","g">> \o IntStr(m.args[i].pos)]
    \o (IF m.special_type = KindVariadic THEN <<<<"v","a","r","_","a","r","g","s">>>> ELSE <<>>)

\* C18: the body of a trampoline calls the method once: a static method through
\* its class, otherwise a method of ObjNumClass through the class's instance,
\* otherwise through the checked receiver obj; the actual arguments are the
\* typed arguments in declaration order, followed for a variadic method by the
\* trailing collection.
C18_CallPriority ==
    [][WritesMethod =>
           WritesOf("call") =
               <<[kind |-> "call",
                  via |-> IF classes[ci].methods[mi].static THEN "Class::"
                          ELSE IF classes[ci].name = NUMBER_CLASS THEN "Class::Instance()->"
                          ELSE "obj->",
                  cls |-> classes[ci].name,
                  name |-> classes[ci].methods[mi].name,
                  args |-> Actuals(classes[ci].methods[mi])]>>]_vars

\* a static variadic method of ObjNumClass with one argument has been written
\* with a call through the class
C18_StaticNumberCall ==
    /\ pc = "done"
    /\ classes[1].name = NUMBER_CLASS
    /\ classes[1].methods[1].static
    /\ classes[1].methods[1].special_type = KindVariadic
    /\ Len(classes[1].methods[1].args) = 1
    /\ \E i \in DOMAIN output :
           /\ output[i].kind = "call"
           /\ output[i].via = "Class::"
           /\ Len(output[i].args) = 2


\* a step of the method loop, whether it ends with the trampoline written or
\* with an exception
GenStep == pc = "method" /\ mi <= Len(classes[ci].methods)

\* the conversion rule of a declared type: the name of the checked conversion,
\* "" for the pass-through, "none" when no rule applies
RuleOf(type) ==
    IF type = <<"V","a","l","u","e">> THEN ""
    ELSE IF Len(type) >= 3 /\ SubSeq(type, 1, 3) = <<"O","b","j">> THEN "checkArg"
    ELSE IF type = <<"s","t","d",":",":","s","t","r","i","n","g">> THEN "checkString"
    ELSE IF type = <<"d","o","u","b","l","e">> THEN "checkDouble"
    ELSE IF type = <<"i","n","t">> THEN "checkInt"
    ELSE "none"

\* the number of leading arguments whose type has a rule
Coercible(args) ==
    CHOOSE k \in 0..Len(args) :
        /\ \A i \in 1..k : RuleOf(args[i].type) # "none"
        /\ (k = Len(args) \/ RuleOf(args[k + 1].type) = "none")

\* line converts argument a by the rule of its type, from the boxed value
\* arg<pos> to the typed value typedArg<pos>; a checked conversion is given the
\* position plus one and the diagnostic label
Coerces(line, a) ==
    /\ line.type = a.type
    /\ line.typed = <<"t","y","p","e","d","A","r","g">> \o IntStr(a.pos)
    /\ line.cast.raw = <<"a","r","g">> \o IntStr(a.pos)
    /\ line.cast.fn = RuleOf(a.type)
    /\ line.cast.fn # "" =>
           /\ line.cast.index = a.pos + 1
           /\ line.cast.label = error_name(a)
           /\ line.cast.tparam = (IF line.cast.fn = "checkArg" THEN Remove(a.type, "*") ELSE <<>>)

CoercesAll(writes, coercions, args, k) ==
    /\ Len(coercions) = k
    /\ \A i \in 1..k : Coerces(coercions[i], args[i])
    /\ \A i \in DOMAIN writes : \A j \in DOMAIN writes :
           writes[i].kind = "coerce" /\ writes[j].kind = "call" => i < j

\* C19: every binding-relevant argument is converted by the one rule of its
\* declared type (Value passes through, a type starting with Obj takes the
\* checked class-pointer conversion, std::string, double and int take theirs);
\* a checked conversion is given the position plus one and the diagnostic
\* label; the conversions are written in declaration order before the call; an
\* argument of any other type ends the run with an exception before the call,
\* after the conversions of the arguments in front of it.
C19_CoercionRules ==
    [][GenStep =>
           /\ CoercesAll(MethodWrites, WritesOf("coerce"), classes[ci].methods[mi].args,
                         Coercible(classes[ci].methods[mi].args))
           /\ IF Coercible(classes[ci].methods[mi].args) = Len(classes[ci].methods[mi].args)
              THEN pc' = "method" /\ Len(WritesOf("call")) = 1
              ELSE /\ pc' = "raised"
                   /\ exc'[1].kind = "Unknown arg type"
                   /\ WritesOf("call") = <<>>]_vars

\* a method declared with an annotated class pointer and a double has been
\* written: the second conversion is checkDouble with index 2
C19_PointerThenDouble ==
    /\ pc = "done"
    /\ Len(classes[1].methods[1].args) = 2
    /\ classes[1].methods[1].args[1].type = TypeObjFoo
    /\ classes[1].methods[1].args[1].error_name = Some(TheIndex)
    /\ classes[1].methods[1].args[2].type = TypeDouble
    /\ \E i \in DOMAIN output :
           /\ output[i].kind = "coerce"
           /\ output[i].cast.fn = "checkArg"
           /\ output[i].cast.tparam = ObjFoo
           /\ output[i].cast.index = 1
           /\ output[i + 1].kind = "coerce"
           /\ output[i + 1].cast.fn = "checkDouble"
           /\ output[i + 1].cast.index = 2
           /\ \E j \in (i + 2)..Len(output) : output[j].kind = "call"


(***************************************************************************)
(* Properties of the diagnostic labels                                     *)
(***************************************************************************)
\* the entries of the argument list of the method declaration of the header,
\* the last one left out for a variadic method: the binding-relevant ones
Relevant(line) ==
    IF line.args = <<>> THEN <<>>
    ELSE SubSeq(Split(line.args, ","), 1,
                Len(Split(line.args, ","))
                    - (IF line.type = <<"v","a","r","i","a","d","i","c">> THEN 1 ELSE 0))

\* entry carries the annotation ARG("label"); entry declares an argument name
Annotated(entry, label) ==
    \E k \in 0..Len(entry) :
        /\ \A i \in 1..k : entry[i] = " "
        /\ StartsWith(SubSeq(entry, k + 1, Len(entry)),
                      <<"A","R","G","(","\"">> \o label \o <<"\"",")">>)
Declares(entry, name) ==
    \E sep \in {" ", "*"} : EndsWith(entry, <<sep>> \o name)

\* the checked conversions of the coerce lines written
CastsOf(lines) == [i \in DOMAIN lines |-> lines[i].cast]
CheckedCasts(out) ==
    CastsOf(SelectSeq(out, LAMBDA l : l.kind = "coerce" /\ l.cast.fn # ""))
\* the entries whose declared type is not the boxed value
CheckedEntries(entries) ==
    SelectSeq(entries, LAMBDA e : ~EndsWith(e, <<"V","a","l","u","e"," ">> \o MyArg))

\* the label of the conversion of an entry: the annotation when there is one,
\* otherwise what default(name) gives for the name declared
LabelIs(entry, label, name, default) ==
    IF \E l \in {TheIndex} : Annotated(entry, l)
    THEN Annotated(entry, label)
    ELSE Declares(entry, name) /\ label = default

Labelled(casts, entries, defaults) ==
    /\ Len(casts) = Len(entries)
    /\ \A i \in DOMAIN entries : LabelIs(entries[i], casts[i].label, MyArg, defaults)

\* C20, as stated: the diagnostic label of a conversion is the label of the
\* argument's annotation, verbatim, and the argument's name when the
\* declaration has no annotation.
C20_AsStated ==
    pc = "done" =>
        Labelled(CheckedCasts(output), CheckedEntries(Relevant(headers[1][2])), MyArg)

\* C20: the diagnostic label of a conversion is the label of the argument's
\* annotation, verbatim; when the declaration has no annotation it is the
\* argument's name capitalized: its first character in upper case and every
\* other character in lower case (myArg gives Myarg).
C20_CapitalizedDefault ==
    pc = "done" =>
        Labelled(CheckedCasts(output), CheckedEntries(Relevant(headers[1][2])),
                 <<"M","y","a","r","g">>)

\* a method declared with an annotated int and an int without annotation has
\* been written, with the labels "the index" and "Myarg"
C20_AnnotatedAndDefault ==
    /\ pc = "done"
    /\ headers[1][2].type = <<>>
    /\ headers[1][2].args = Entry(TypeInt, Some(TheIndex)) \o <<",", " ">> \o Entry(TypeInt, None)
    /\ [i \in 1..2 |-> CheckedCasts(output)[i].label] = <<TheIndex, <<"M","y","a","r","g">>>>


(***************************************************************************)
(* Properties of the return value                                          *)
(***************************************************************************)
\* a step of the method loop that writes the definition of a trampoline: the
\* signature of the method has been computed
WritesTrampoline == GenStep /\ Len(WritesOf("def")) = 1

\* the boxing of a declared return type, "none" when the type has no rule
Boxing(type) ==
    IF type = <<"v","o","i","d">> THEN "NULL_VAL"
    ELSE IF type = <<"V","a","l","u","e">> THEN "ret"
    ELSE IF type = <<"s","t","d",":",":","s","t","r","i","n","g">>
    THEN "encode_object(ObjString::New(ret))"
    ELSE IF type = <<"b","o","o","l">> THEN "encode_object(ObjBool::Get(ret))"
    ELSE IF type \in {<<"i","n","t">>, <<"d","o","u","b","l","e">>} THEN "encode_number(ret)"
    ELSE IF Len(type) >= 3 /\ SubSeq(type, 1, 3) = <<"O","b","j">> THEN "encode_object(ret)"
    ELSE "none"

\* C21: the return-value conversion of a trampoline is fixed by the declared
\* return type: void returns the null sentinel and captures no result; every
\* other known type captures the result of the call in a variable of that
\* type and returns it as it is (Value) or boxed by the rule of the type
\* (std::string, bool, int, double, a type starting with Obj); any other
\* declared return type ends the run with an exception and no return is
\* written.
C21_ReturnConversion ==
    [][WritesTrampoline =>
           /\ WritesOf("capture") =
                  (IF classes[ci].methods[mi].return_type = <<"v","o","i","d">> THEN <<>>
                   ELSE <<[kind |-> "capture", type |-> classes[ci].methods[mi].return_type]>>)
           /\ IF Boxing(classes[ci].methods[mi].return_type) = "none"
              THEN /\ pc' = "raised"
                   /\ exc'[1].kind = "Invalid return type"
                   /\ WritesOf("return") = <<>>
              ELSE /\ pc' = "method"
                   /\ WritesOf("return") =
                          <<[kind |-> "return",
                             value |-> Boxing(classes[ci].methods[mi].return_type)]>>]_vars

\* a method declared to return bool has been written with the boxing of a bool
C21_BoolReturned ==
    /\ pc = "done"
    /\ classes[1].methods[1].return_type = <<"b","o","o","l">>
    /\ \E i \in DOMAIN output :
           /\ output[i].kind = "capture"
           /\ output[i].type = <<"b","o","o","l">>
           /\ output[i + 1].kind = "call"
           /\ output[i + 2] = [kind |-> "return", value |-> "encode_object(ObjBool::Get(ret))"]


(***************************************************************************)
(* Properties of the debugging option                                      *)
(***************************************************************************)
\* the positions, among the writes of a step, of the lines of the given kinds
Positions(writes, kinds) == {i \in DOMAIN writes : writes[i].kind \in kinds}

\* with the option set the collection is called once, before the receiver is
\* resolved and before every conversion; without it, it is not called
Collects(writes, gc) ==
    IF gc
    THEN /\ Cardinality(Positions(writes, {"gc"})) = 1
         /\ \A g \in Positions(writes, {"gc"}) :
              \A i \in Positions(writes, {"null_receiver", "check_receiver", "coerce", "call"}) :
                  g < i
    ELSE Positions(writes, {"gc"}) = {}

\* C22: when pre_entry_gc is set, every trampoline contains the call of the
\* garbage collection, once, before the resolution of the receiver, before
\* every conversion of an argument and before the call; when it is not set, no
\* trampoline contains it.
C22_CollectionFirst ==
    [][WritesTrampoline => Collects(MethodWrites, pre_entry_gc)]_vars

\* with the option set, a method of ObjFoo with one checked argument has been
\* written: the collection, then the receiver, then the conversion
C22_CollectedBeforeReceiver ==
    /\ pc = "done"
    /\ pre_entry_gc
    /\ classes[1].name = ObjFoo
    /\ \E i \in DOMAIN output :
           /\ output[i].kind = "def"
           /\ output[i + 1].kind = "gc"
           /\ output[i + 2].kind = "check_receiver"
           /\ output[i + 3].kind = "coerce"
           /\ output[i + 3].cast.fn = "checkInt"


(***************************************************************************)
(* Properties of the scanner                                               *)
(***************************************************************************)
\* what the lines of ScanLines declare: the name of a class, a method of the
\* class cls, or nothing
ClassOf(text) ==
    IF text = LineClassFoo THEN Some(ObjFoo)
    ELSE IF text = LineClassA THEN Some(ObjA)
    ELSE None
MethodOf(text, cls) ==
    IF text = LineBar THEN Some(Method(TypeVoid, Bar, <<>>, FALSE, KindPlain, cls))
    ELSE IF text = LineFoo THEN Some(Method(TypeInt, foo, <<>>, TRUE, KindGetter, cls))
    ELSE None

\* the positions of the class boundaries of file f, in increasing order
Boundaries(f) ==
    CHOOSE q \in [1..Cardinality({i \in DOMAIN f : ClassOf(f[i]) # None})
                  -> {i \in DOMAIN f : ClassOf(f[i]) # None}] :
        \A a \in DOMAIN q : \A b \in DOMAIN q : a < b => q[a] < q[b]

\* the methods declared by the lines of f from position from to position to
MethodsOfLines(lines, cls) == [k \in DOMAIN lines |-> MethodOf(lines[k], cls)[1]]
MethodsBetween(f, from, to, cls) ==
    MethodsOfLines(SelectSeq(SubSeq(f, from, to), LAMBDA t : MethodOf(t, cls) # None), cls)

\* the class records of file f, given the positions q of its boundaries: one
\* per boundary, with the methods declared up to the next boundary
RecordsAt(f, q) ==
    [k \in DOMAIN q |->
        Class(ClassOf(f[q[k]])[1],
              MethodsBetween(f, q[k] + 1, IF k < Len(q) THEN q[k + 1] - 1 ELSE Len(f),
                             ClassOf(f[q[k]])[1]))]
Records(f) == RecordsAt(f, Boundaries(f))

\* file f declares a method before its first class boundary
Orphaned(f) ==
    \E i \in DOMAIN f :
        MethodOf(f[i], ObjFoo) # None /\ \A j \in 1..(i - 1) : ClassOf(f[j]) = None

EntriesOf(text) == IF text = <<>> THEN <<>> ELSE Split(text, ",")

\* args are the arguments of the first n entries, in order: the k-th has
\* position k - 1 and the type and label its entry is written with
ArgsOf(args, entries, n) ==
    /\ Len(args) = n
    /\ \A k \in 1..n :
         /\ args[k].pos = k - 1
         /\ args[k].name = MyArg
         /\ Strip(entries[k]) = Entry(args[k].type, args[k].error_name)

ParsedAs(line, entries, variadic) ==
    IF variadic /\ entries = <<>>
    THEN pc = "raised" /\ exc[1].kind = "IndexError" /\ classes = <<>>
    ELSE /\ Len(classes) = 1
         /\ Len(classes[1].methods) = 1
         /\ ArgsOf(classes[1].methods[1].args, entries,
                   Len(entries) - (IF variadic THEN 1 ELSE 0))

FilesDeclaring(t) == {f \in DOMAIN headers : \E i \in DOMAIN headers[f] : ClassOf(headers[f][i]) = Some(t)}
RecordsNamed(t) == {j \in DOMAIN classes : classes[j].name = t}

\* the registration functions ObjClass::Bind runs for the type name t
BindCalls(out, t) == RunBind(SubSeq(out, BindStart(out), Len(out)), 2, t, <<>>).calls

\* C25, as stated: a class declared in two files gives two class records, each
\* with its own methods, and ObjClass::Bind, called with the name of the class,
\* runs the registration of both records.
C25_BothRegistered ==
    pc = "done" =>
        \A t \in {ObjFoo, ObjA} :
            Cardinality(FilesDeclaring(t)) = 2 =>
                /\ Cardinality(RecordsNamed(t)) = 2
                /\ Len(BindCalls(output, t)) = 2


(***************************************************************************)
(* Properties of the wrappers, signatures and registrations together       *)
(***************************************************************************)
\* every wrapper among the writes calls the trampoline def with as many actual
\* arguments as def declares parameters
ActualsFit(def, wrappers) ==
    \A w \in DOMAIN wrappers :
        /\ wrappers[w].callee = def.symbol
        /\ Len(wrappers[w].actuals) = Len(Declared(def.params))

\* C26, as stated: each of the 17 forwarding wrappers of a variadic method
\* calls the trampoline of the method with exactly as many actual arguments as
\* the trampoline declares parameters (the receiver if present, one per
\* argument, then the trailing collection), whatever the number of arguments
\* and whatever the class.
C26_WrapperActualsFit ==
    [][(WritesMethod /\ classes[ci].methods[mi].special_type = KindVariadic) =>
           /\ Len(WritesOf("va_def")) = 17
           /\ ActualsFit(WritesOf("def")[1], WritesOf("va_def"))]_vars


\* the argument part of a signature: all of an indexing signature, and what
\* follows the name in any other
ArgumentPart(sig) ==
    IF sig[1] = "[" THEN sig
    ELSE SubSeq(sig, Len(sig) - RunUntil([i \in DOMAIN sig |-> sig[Len(sig) + 1 - i]], 1, "("),
                Len(sig))

\* C27, as stated: for every method that is neither a getter nor variadic and
\* on which signature() succeeds, the number of placeholders in the argument
\* part of the signature is arity(); OperatorSubscriptSet at every arity, the
\* arity 0 among them, is no exception.
C27_PlaceholdersAreArity ==
    \A i \in DOMAIN recv :
        (/\ WasCalled(ret[i].arity) /\ WasCalled(ret[i].signature)
         /\ IsOk(ret[i].signature)
         /\ recv[i].special_type \notin {KindGetter, KindVariadic}) =>
            Count(ArgumentPart(ret[i].signature.val), "_") = ret[i].arity.val


\* a step that writes the registration function of the class at hand
WritesRegister == pc = "method" /\ mi > Len(classes[ci].methods) /\ pc' = "class"

\* the methods ms have pairwise distinct pairs of name and arity
DistinctOverloads(ms) ==
    \A a \in DOMAIN ms : \A b \in DOMAIN ms :
        a # b => <<ms[a].name, arity(ms[a])>> # <<ms[b].name, arity(ms[b])>>

\* the condition that guards the registration at position p of the function reg
GuardOf(reg, p) ==
    reg[CHOOSE g \in 1..p : reg[g].kind = "if" /\ \A x \in (g + 1)..p : reg[x].kind # "if"].cond

\* no two registrations of reg under the same condition use the same signature
DistinctSignatures(reg) ==
    \A p \in DOMAIN reg : \A q \in DOMAIN reg :
        (p < q /\ reg[p].kind = "add" /\ reg[q].kind = "add"
         /\ GuardOf(reg, p) = GuardOf(reg, q)) => reg[p].signature # reg[q].signature

\* C28, as stated: in the registration function of a class whose methods have
\* pairwise distinct pairs of method name and arity, no two registrations
\* guarded by the same condition use the same signature; in particular none of
\* the 17 expansions of a variadic method has the signature of another method
\* of the class.
C28_SignaturesDistinct ==
    [][(WritesRegister /\ DistinctOverloads(classes[ci].methods)) =>
           DistinctSignatures(MethodWrites)]_vars

(***************************************************************************)
(* Properties of the parallel test runner                                  *)
(***************************************************************************)
\* the workers that are between an acquire and a release of WORKING_LOCK
Holders == {w \in Threads : worker[w].held}

\* at most one thread holds WORKING_LOCK, the lock is locked exactly when one does, and
\* a worker holds it at every position of test logic and at no position of a wait or
\* after the end of its task
Exclusive ==
    /\ Cardinality(Holders) + (IF runner.pc = "check" THEN 1 ELSE 0)
           = (IF WORKING_LOCK THEN 1 ELSE 0)
    /\ Cardinality({w \in Threads : worker[w].pc \in Logic}) <= 1
    /\ \A w \in Threads :
           /\ worker[w].pc \in Logic => worker[w].held
           /\ worker[w].pc \in Waits \cup {"new", "sem_release", "done"} => ~worker[w].held

\* a step changes a counter, or takes a thread off threads_in_progress
Updates ==
    \/ <<passed, expected_failed, failed>>' # <<passed, expected_failed, failed>>
    \/ Len(threads_in_progress') < Len(threads_in_progress)

\* the steps of worker w keep to the discipline: the end of a wait leads to the acquire
\* whether or not the wait raised; the lock is given up only for a wait or, once, at the
\* end of the task
Disciplined(w) ==
    /\ worker[w].pc \in Waits /\ worker'[w].pc # worker[w].pc
           => worker'[w].pc \in {"compile_acquire", "run_acquire"}
    /\ worker[w].pc \in {"compile_acquire", "run_acquire"} /\ worker'[w].pc # worker[w].pc
           => /\ ~WORKING_LOCK /\ WORKING_LOCK' /\ worker'[w].held
              /\ worker'[w].pc = "finally" <=> worker[w].raised
    /\ worker[w].held /\ ~worker'[w].held
           => /\ WORKING_LOCK /\ ~WORKING_LOCK'
              /\ worker'[w].pc \in Waits \cup {"sem_release"}
    /\ worker[w].pc \in {"sem_release", "done"} => worker'[w].pc \in {"sem_release", "done"}

\* C29: at most one worker at a time is running test logic or updating the shared
\* counters and threads_in_progress: a worker holds WORKING_LOCK wherever it does either,
\* gives it up only around a subprocess wait, takes it again after the wait whether the
\* wait returned or raised, and releases it once when its task ends.
C29_LockDiscipline ==
    [][/\ Exclusive
       /\ Exclusive'
       /\ Updates => \E w \in Holders : worker[w].pc \in Logic /\ worker'[w].pc # worker[w].pc
       /\ \A w \in Threads : Disciplined(w)]_vars

\* a wait of one worker raised while another worker holds the lock in its test logic
C29_RaisedWhileOtherWorks ==
    \E w, v \in Threads :
        /\ worker[w].pc = "run_acquire" /\ worker[w].raised
        /\ worker[v].pc = "result" /\ worker[v].held

\* the workers that have been started and have not executed the last statement of run()
Running == {w \in Threads : worker[w].pc \notin {"new", "done"}}

\* the workers thread.start() has been called on
Started == {w \in Threads : worker[w].pc # "new"}

\* the slots of THREADS_SEM are the ones no running worker and no worker about to be
\* started has taken: each is acquired before the start and given back once at the end
\* of run(), whether or not the task raised
SlotsAccounted ==
    /\ Cardinality(Running) <= max_threads
    /\ THREADS_SEM = max_threads - Cardinality(Running)
                         - (IF runner.pc \in {"append", "start"} THEN 1 ELSE 0)

====
